---- MODULE Spec2Model ----
(***************************************************************************)
(* Batch orchestration and state-commitment pipeline of the mini zkEVM     *)
(* rollup: the settlement ledger (contracts/ZKEVMRollup.sol), the          *)
(* StateRootManager (core/state-manager), the ProofGenerator               *)
(* (core/proof-generator), the BatchProcessor (core/batch-processor) and   *)
(* the RollupSequencer (core/sequencer).                                   *)
(*                                                                         *)
(* Every `await` of the TypeScript code is a point where other handlers    *)
(* may run, so each async method is split into one action per stretch of   *)
(* synchronous code between two awaits on an external collaborator.        *)
(***************************************************************************)
EXTENDS Integers, Sequences, FiniteSets, TLC

(***************************************************************************)
(* Bounds of the model.                                                    *)
(***************************************************************************)
\* batch indices carried by proofs handed to the StateRootManager: 0..MaxIndex
MaxIndex == 1
\* longest proof list handed to submitAggregatedStateUpdates
MaxAggLen == 2
\* Prover calls the ProofGenerator may make in one behaviour
MaxProverCalls == 2
\* transactions accepted into the queue in one behaviour
MaxAccepted == 2
MaxCount == 3
MaxListLen == 3
MaxConfigured == 2
MaxPool == 4
\* config.maxTransactions and config.aggregationSize of the BatchProcessor
MaxTransactions == 1
AggregationSize == 2

(***************************************************************************)
(* Constants of the program.                                               *)
(***************************************************************************)
MinGasLimit == 21000
MaxGasLimit == 10000000
MaxConcurrentBatches == 3
CurrentGasPrice == 10

(***************************************************************************)
(* Values.                                                                 *)
(***************************************************************************)
\* 32-byte state roots.  "zero" and "ones" are the two roots the in-tree
\* prover writes into its public values.
ZeroRoot == "zero"
OnesRoot == "ones"
Roots == {ZeroRoot, OnesRoot}
\* proof byte strings; ZeroBytes is the all-zero buffer the in-tree prover emits
ZeroBytes == "zeros1024"
ProofDatas == {ZeroBytes, "bytesB"}
NoRoot == "none"

Indices == 0..MaxIndex

Min(a, b) == IF a < b THEN a ELSE b
Max(a, b) == IF a > b THEN a ELSE b

\* StateTransitionProof: the public values of a proof (transactionCount and
\* transactionHashes are carried along unread by every check and are left out)
PublicValues == [oldStateRoot : Roots, newStateRoot : Roots, batchIndex : Indices]
\* ProofResult
ProofResults == [batchIndex : Indices, proofData : ProofDatas, publicValues : PublicValues]

\* the lists of n transitions handed to submitAggregatedBatch
TransitionLists(n) == [1..n -> PublicValues]

\* the proof list handed to submitAggregatedStateUpdates whose i-th element has
\* batch index f[i][1] and public values f[i][2]; only the first element's
\* proofData is ever read (index.ts:460), so all carry the same bytes
AggInput(f, pd) ==
    [i \in DOMAIN f |-> [batchIndex |-> f[i][1], proofData |-> pd, publicValues |-> f[i][2]]]

\* Transaction records.  TxA and TxA2 differ in gasPrice only; TxB is another
\* transfer.
TxA == [from |-> "0xA", to |-> "0xB", value |-> 1, data |-> "0x", nonce |-> 0,
        gasLimit |-> 21000, gasPrice |-> 1]
TxA2 == [TxA EXCEPT !.gasPrice = 2]
TxB == [from |-> "0xB", to |-> "0xA", value |-> 2, data |-> "0x", nonce |-> 0,
        gasLimit |-> 21000, gasPrice |-> 1]

\* transaction lists handed to ProofGenerator.generateProof
PgTxLists == {<<TxA>>, <<TxB>>}
\* callers of ProofGenerator.generateProof
PgCallers == {"g1", "g2"}

\* transactions offered to addTransaction: three valid ones, and one for each
\* rule of validateTransaction that breaks exactly that rule
TxLowGas == [TxB EXCEPT !.gasLimit = 20999]
TxHighGas == [TxB EXCEPT !.gasLimit = 10000001]
TxBadFrom == [TxB EXCEPT !.from = "A"]
TxBadTo == [TxB EXCEPT !.to = "0x"]
TxNegNonce == [TxB EXCEPT !.nonce = -1]
TxNegPrice == [TxB EXCEPT !.gasPrice = -1]
TxNegValue == [TxB EXCEPT !.value = -1]
TxBadData == [TxB EXCEPT !.data = "ff"]
TxInvalid == {TxLowGas, TxHighGas, TxBadFrom, TxBadTo, TxNegNonce, TxNegPrice,
              TxNegValue, TxBadData}
TxInputs == {TxA, TxA2, TxB} \cup TxInvalid
\* the strings ethers.isAddress accepts, and the payloads that start with 0x
Addresses == {"0xA", "0xB"}
HexPayloads == {"0x"}

\* callers of the StateRootManager: the public entry points called directly,
\* the processPendingTransactions call and the forceBatch calls
ApiCallers == {"api"}
ForceCallers == {"f1", "f2"}
Callers == ApiCallers \cup {"cycle"} \cup ForceCallers

VARIABLES
    \* ---- ZKEVMRollup (the settlement ledger) ----
    currentStateRoot,   \* bytes32 public currentStateRoot
    currentBatchIndex,  \* uint256 public currentBatchIndex
    batches,            \* mapping(uint256 => Batch), as a function on the written keys
    processedProofs,    \* mapping(bytes32 => bool), as the set of keys mapped to true
    paused,             \* Pausable._paused
    validProof,         \* MockSP1Verifier.validProof
    acceptedLog,        \* history: the BatchSubmitted events (index, old and new root), in order
    lastRevert,         \* outcome of the last direct call of the contract
    \* ---- StateRootManager ----
    stateStorage,       \* Map<string, string>: lower-case address -> balance
    stateHistory,       \* Map<number, string>
    batchHistory,       \* Map<number, Batch>
    sub,                \* the submit* calls in flight, one record per caller
    \* ---- ProofGenerator ----
    pendingProofs,      \* Map<number, Promise<ProofResult>>: batch index -> Prover call
    proofCache,         \* Map<string, ProofResult>
    proverCalls,        \* the Prover calls made by the ProofGenerator, in order
    gen,                \* the generateProof calls in flight, one record per caller
    \* ---- BatchProcessor ----
    pendingTransactions, \* Transaction[]: the queue, oldest first
    transactionHashes,  \* Set<string>
    batchIndex,         \* number: the next batch index
    processing,         \* boolean: the guard of processPendingTransactions
    batchStats,         \* Map<number, {transactionCount, gasUsed, timestamp}>
    accepted,           \* history: number of transactions accepted into the queue
    creates,            \* history: every createBatch call, with its position
    cyc,                \* the processPendingTransactions call in flight
    force,              \* the forceBatch calls in flight, one record per caller
    \* ---- RollupSequencer ----
    isRunning,          \* boolean
    intervalId,         \* NodeJS.Timeout | null
    timers,             \* number of interval timers scheduled in the runtime
    totalBatches,       \* number
    lastBatchTimestamp, \* number: 0, or 1 for a time of the clock
    \* ---- AccessControl and SecurityManager ----
    roles,              \* Map<string, Set<Role>>: lower-case address -> roles
    adminAddresses,     \* Set<string>: lower-case addresses
    failedAttempts,     \* Map<string, {count, lastAttempt}>: lower-case address -> count
    auditLogs,          \* AuditLog[]: the number of entries
    lastCall            \* history: the last call of the security layer and its outcome

ledgerVars == <<currentStateRoot, currentBatchIndex, batches, processedProofs,
                paused, validProof, acceptedLog, lastRevert>>
srmVars == <<stateStorage, stateHistory, batchHistory, sub>>
pgVars == <<pendingProofs, proofCache, proverCalls, gen>>
bpVars == <<pendingTransactions, transactionHashes, batchIndex, processing, batchStats,
            accepted, creates, cyc, force,
            isRunning, intervalId, timers, totalBatches, lastBatchTimestamp>>
secVars == <<roles, adminAddresses, failedAttempts, auditLogs, lastCall>>
vars == <<ledgerVars, srmVars, pgVars, bpVars, secVars>>

(***************************************************************************)
(* ZKEVMRollup.sol                                                         *)
(***************************************************************************)
\* keccak256(proof): a digest that is equal exactly for equal byte strings
ProofHash(proofData) == <<"keccak256", proofData>>

\* faulty variant of BatchIndexMismatch: the index is never compared
BatchIndexMismatch_Unchecked(t, expectedBatchIndex) == FALSE

\* the index check of submitBatch (ZKEVMRollup.sol:96)
BatchIndexMismatch(t, expectedBatchIndex) == t.batchIndex # expectedBatchIndex

\* faulty variant of StateRootMismatch: the old root is never compared
StateRootMismatch_Unchecked(t, expectedOldRoot) == FALSE

\* the root check of submitBatch (ZKEVMRollup.sol:92)
StateRootMismatch(t, expectedOldRoot) == t.oldStateRoot # expectedOldRoot

\* submitBatch without the whenNotPaused modifier
SubmitBatchCheck_NotPausable(proofData, t) ==
    IF ProofHash(proofData) \in processedProofs THEN "ProofAlreadyProcessed"
    ELSE IF StateRootMismatch(t, currentStateRoot) THEN "InvalidStateRoot"
    ELSE IF BatchIndexMismatch(t, currentBatchIndex) THEN "InvalidBatchIndex"
    ELSE IF ~validProof THEN "InvalidProof"
    ELSE "ok"

\* result of the checks of submitBatch, in the order the contract makes them
SubmitBatchCheck(proofData, t) ==
    IF paused THEN "EnforcedPause"
    ELSE IF ProofHash(proofData) \in processedProofs THEN "ProofAlreadyProcessed"
    ELSE IF StateRootMismatch(t, currentStateRoot) THEN "InvalidStateRoot"
    ELSE IF BatchIndexMismatch(t, currentBatchIndex) THEN "InvalidBatchIndex"
    ELSE IF ~validProof THEN "InvalidProof"
    ELSE "ok"

\* the chain loop of submitAggregatedBatch (ZKEVMRollup.sol:149-162)
RECURSIVE ChainCheck(_, _, _, _)
ChainCheck(ts, i, expectedOldRoot, expectedBatchIndex) ==
    IF i > Len(ts) THEN "ok"
    ELSE IF StateRootMismatch(ts[i], expectedOldRoot) THEN "InvalidStateRoot"
    ELSE IF BatchIndexMismatch(ts[i], expectedBatchIndex) THEN "InvalidBatchIndex"
    ELSE ChainCheck(ts, i + 1, ts[i].newStateRoot, expectedBatchIndex + 1)

\* result of the checks of submitAggregatedBatch; an empty list passes the loop
\* and panics on transitions[transitions.length - 1] (checked arithmetic)
SubmitAggregatedCheck(proofData, ts) ==
    IF paused THEN "EnforcedPause"
    ELSE IF ProofHash(proofData) \in processedProofs THEN "ProofAlreadyProcessed"
    ELSE IF ChainCheck(ts, 1, currentStateRoot, currentBatchIndex) # "ok"
         THEN ChainCheck(ts, 1, currentStateRoot, currentBatchIndex)
    ELSE IF ~validProof THEN "InvalidProof"
    ELSE IF Len(ts) = 0 THEN "Panic"
    ELSE "ok"

\* faulty variant of StoreBatches: only the last transition is stored
StoreBatches_LastOnly(bs, ts, i) ==
    (ts[Len(ts)].batchIndex :> [stateRoot |-> ts[Len(ts)].newStateRoot, finalized |-> TRUE])
        @@ bs

\* batches[...] = Batch({...}) for every transition, later ones overwriting
RECURSIVE StoreBatches(_, _, _)
StoreBatches(bs, ts, i) ==
    IF i > Len(ts) THEN bs
    ELSE StoreBatches(
            (ts[i].batchIndex :> [stateRoot |-> ts[i].newStateRoot, finalized |-> TRUE]) @@ bs,
            ts, i + 1)

\* the state changes of an accepted submission of ts (one transition for submitBatch)
LedgerAccept(proofData, ts) ==
    /\ processedProofs' = processedProofs \cup {ProofHash(proofData)}
    /\ batches' = StoreBatches(batches, ts, 1)
    /\ currentStateRoot' = ts[Len(ts)].newStateRoot
    /\ currentBatchIndex' = currentBatchIndex + Len(ts)
    /\ acceptedLog' = acceptedLog \o ts
    /\ UNCHANGED <<paused, validProof>>

LedgerRevert ==
    UNCHANGED <<currentStateRoot, currentBatchIndex, batches, processedProofs,
                paused, validProof, acceptedLog>>

\* ZKEVMRollup.submitBatch executed on chain; r is what the sender observes
ExecSubmitBatch(proofData, t, r) ==
    /\ r = SubmitBatchCheck(proofData, t)
    /\ IF r = "ok" THEN LedgerAccept(proofData, <<t>>) ELSE LedgerRevert

\* ZKEVMRollup.submitAggregatedBatch executed on chain
ExecSubmitAggregatedBatch(proofData, ts, r) ==
    /\ r = SubmitAggregatedCheck(proofData, ts)
    /\ IF r = "ok" THEN LedgerAccept(proofData, ts) ELSE LedgerRevert

\* a direct call of submitBatch by any account
ContractSubmitBatch ==
    \E pd \in ProofDatas, t \in PublicValues :
        /\ ExecSubmitBatch(pd, t, lastRevert')
        /\ UNCHANGED <<srmVars, secVars, pgVars, bpVars>>

\* a direct call of submitAggregatedBatch by any account
ContractSubmitAggregatedBatch ==
    \E pd \in ProofDatas, n \in 0..MaxAggLen : \E ts \in TransitionLists(n) :
        /\ ExecSubmitAggregatedBatch(pd, ts, lastRevert')
        /\ UNCHANGED <<srmVars, secVars, pgVars, bpVars>>

\* ZKEVMRollup.pause (onlyOwner; Pausable reverts when already paused)
Pause ==
    /\ ~paused
    /\ paused' = TRUE
    /\ UNCHANGED <<currentStateRoot, currentBatchIndex, batches, processedProofs,
                   validProof, acceptedLog, lastRevert>>
    /\ UNCHANGED <<srmVars, secVars, pgVars, bpVars>>

\* ZKEVMRollup.unpause
Unpause ==
    /\ paused
    /\ paused' = FALSE
    /\ UNCHANGED <<currentStateRoot, currentBatchIndex, batches, processedProofs,
                   validProof, acceptedLog, lastRevert>>
    /\ UNCHANGED <<srmVars, secVars, pgVars, bpVars>>

\* MockSP1Verifier.setValidProof
SetValidProof ==
    /\ validProof' = ~validProof
    /\ UNCHANGED <<currentStateRoot, currentBatchIndex, batches, processedProofs,
                   paused, acceptedLog, lastRevert>>
    /\ UNCHANGED <<srmVars, secVars, pgVars, bpVars>>

\* the contract after its constructor, for any _initialStateRoot
LedgerInit ==
    /\ currentStateRoot \in Roots
    /\ currentBatchIndex = 0
    /\ batches = <<>>
    /\ processedProofs = {}
    /\ paused = FALSE
    /\ validProof = FALSE
    /\ acceptedLog = <<>>
    /\ lastRevert = "none"

(***************************************************************************)
(* StateRootManager (core/config/index.ts:293-524)                         *)
(***************************************************************************)
IdleCall == [pc |-> "idle", kind |-> "none", proofs |-> <<>>, currentRoot |-> NoRoot,
             error |-> "none", ledgerCalled |-> FALSE]

\* faulty variant of verifyStateTransition: the old root is not compared
verifyStateTransition_NewRootOnly(oldRoot, newRoot, proofResult) ==
    newRoot = proofResult.publicValues.newStateRoot

\* StateRootManager.verifyStateTransition
verifyStateTransition(oldRoot, newRoot, proofResult) ==
    /\ oldRoot = proofResult.publicValues.oldStateRoot
    /\ newRoot = proofResult.publicValues.newStateRoot

\* faulty variant of SetStateHistory: only the first proof of the list is recorded
SetStateHistory_FirstOnly(h, ps, i) ==
    IF i > Len(ps) THEN h
    ELSE (ps[i].batchIndex :> ps[i].publicValues.newStateRoot) @@ h

\* stateHistory.set(proof.batchIndex, proof.publicValues.newStateRoot), in list order
RECURSIVE SetStateHistory(_, _, _)
SetStateHistory(h, ps, i) ==
    IF i > Len(ps) THEN h
    ELSE SetStateHistory((ps[i].batchIndex :> ps[i].publicValues.newStateRoot) @@ h, ps, i + 1)

\* batchHistory.set(proof.batchIndex, {...finalized: true}), in list order
RECURSIVE SetBatchHistory(_, _, _)
SetBatchHistory(h, ps, i) ==
    IF i > Len(ps) THEN h
    ELSE SetBatchHistory(
            (ps[i].batchIndex :> [batchIndex |-> ps[i].batchIndex,
                                  stateRoot |-> ps[i].publicValues.newStateRoot,
                                  finalized |-> TRUE]) @@ h,
            ps, i + 1)

Transitions(ps) == [i \in 1..Len(ps) |-> ps[i].publicValues]

\* submitStateUpdate / submitAggregatedStateUpdates entered: the call awaits
\* getCurrentStateRoot()
SubmitCall(c, kind, ps) ==
    /\ sub[c].pc = "idle"
    /\ sub' = [sub EXCEPT ![c] = [pc |-> "reading", kind |-> kind, proofs |-> ps,
                                  currentRoot |-> NoRoot, error |-> "none",
                                  ledgerCalled |-> FALSE]]
    /\ UNCHANGED <<secVars, stateStorage, stateHistory, batchHistory>>

\* submitStateUpdate, from the answer of getCurrentStateRoot() to the call of
\* rollupContract.submitBatch (index.ts:408-427)
SingleAfterRead(c) ==
    LET p == sub[c].proofs[1]
        currentRoot == currentStateRoot
        isValid == verifyStateTransition(currentRoot, p.publicValues.newStateRoot, p)
    IN  IF ~isValid
        THEN sub' = [sub EXCEPT ![c].pc = "failed", ![c].currentRoot = currentRoot,
                                ![c].error = "InvalidTransition"]
        ELSE sub' = [sub EXCEPT ![c].pc = "submitting", ![c].currentRoot = currentRoot,
                                ![c].ledgerCalled = TRUE]

\* submitAggregatedStateUpdates, from the answer of getCurrentStateRoot() to the
\* call of rollupContract.submitAggregatedBatch (index.ts:453-463); the root read
\* is not compared with anything, and proofResults[0] of an empty list throws
AggregatedAfterRead(c) ==
    LET currentRoot == currentStateRoot
    IN  IF Len(sub[c].proofs) = 0
        THEN sub' = [sub EXCEPT ![c].pc = "failed", ![c].currentRoot = currentRoot,
                                ![c].error = "TypeError"]
        ELSE sub' = [sub EXCEPT ![c].pc = "submitting", ![c].currentRoot = currentRoot,
                                ![c].ledgerCalled = TRUE]

ReadReturn(c) ==
    /\ sub[c].pc = "reading"
    /\ IF sub[c].kind = "single" THEN SingleAfterRead(c) ELSE AggregatedAfterRead(c)
    /\ UNCHANGED <<secVars, stateStorage, stateHistory, batchHistory>>

\* the settlement transaction of call c is executed by the ledger
LedgerExec(c) ==
    /\ sub[c].pc = "submitting"
    /\ \E r \in {"ok", "EnforcedPause", "ProofAlreadyProcessed", "InvalidStateRoot",
                 "InvalidBatchIndex", "InvalidProof", "Panic"} :
          /\ IF sub[c].kind = "single"
             THEN ExecSubmitBatch(sub[c].proofs[1].proofData,
                                  sub[c].proofs[1].publicValues, r)
             ELSE ExecSubmitAggregatedBatch(sub[c].proofs[1].proofData,
                                            Transitions(sub[c].proofs), r)
          /\ sub' = [sub EXCEPT ![c].pc = "mined", ![c].error = r]
    /\ UNCHANGED <<secVars, stateStorage, stateHistory, batchHistory, lastRevert>>

\* the awaited receipt (or rejection) arrives: the history is written on success
\* (index.ts:429-442, 465-480), the error is rethrown otherwise
SubmitReturn(c) ==
    /\ sub[c].pc = "mined"
    /\ IF sub[c].error = "ok"
       THEN /\ stateHistory' = SetStateHistory(stateHistory, sub[c].proofs, 1)
            /\ UNCHANGED <<secVars, stateStorage>>
            /\ batchHistory' = SetBatchHistory(batchHistory, sub[c].proofs, 1)
            /\ sub' = [sub EXCEPT ![c].pc = "done", ![c].error = "none"]
       ELSE /\ sub' = [sub EXCEPT ![c].pc = "failed"]
            /\ UNCHANGED <<secVars, stateStorage, stateHistory, batchHistory>>

\* StateRootManager.initialize: copies the ledger's batches 0..currentBatchIndex-1.
\* The ledger never rewrites a batch below currentBatchIndex, so the reads of the
\* loop see the same values wherever they are scheduled.
RECURSIVE LoadHistory(_, _, _)
LoadHistory(h, i, n) ==
    IF i >= n THEN h
    ELSE LoadHistory((i :> batches[i].stateRoot) @@ h, i + 1, n)

RECURSIVE LoadBatches(_, _, _)
LoadBatches(h, i, n) ==
    IF i >= n THEN h
    ELSE LoadBatches((i :> [batchIndex |-> i, stateRoot |-> batches[i].stateRoot,
                            finalized |-> batches[i].finalized]) @@ h, i + 1, n)

initialize ==
    /\ stateHistory' = LoadHistory(stateHistory, 0, currentBatchIndex)
    /\ batchHistory' = LoadBatches(batchHistory, 0, currentBatchIndex)
    /\ UNCHANGED <<secVars, stateStorage, sub>>
    /\ UNCHANGED <<ledgerVars, pgVars, bpVars>>

\* the batch getLatestBatches pushes for index i: the local copy if there is
\* one, the ledger's batch otherwise, under the index i
LatestBatch(i) ==
    LET batch == IF i \in DOMAIN batchHistory THEN batchHistory[i] ELSE batches[i]
    IN  [batchIndex |-> i, stateRoot |-> batch.stateRoot, finalized |-> batch.finalized]

Reverse(q) == [k \in 1..Len(q) |-> q[Len(q) + 1 - k]]

\* getLatestBatches without the final reverse()
getLatestBatches_Ascending(count, currentBatch) ==
    LET startBatch == Max(0, currentBatch - count)
    IN  [k \in 1..(currentBatch - startBatch) |-> LatestBatch(startBatch + k - 1)]

\* getLatestBatches(count), where currentBatch is what getCurrentBatchIndex()
\* answered.  The loop may run after the ledger has moved on: the batches below
\* currentBatch are those of the state the loop reads.
getLatestBatches(count, currentBatch) ==
    LET startBatch == Max(0, currentBatch - count)
    IN  Reverse([k \in 1..(currentBatch - startBatch) |-> LatestBatch(startBatch + k - 1)])

\* the public entry points, called with any proof
submitStateUpdate ==
    /\ \E c \in ApiCallers, p \in ProofResults : SubmitCall(c, "single", <<p>>)
    /\ UNCHANGED <<ledgerVars, pgVars, bpVars>>

submitAggregatedStateUpdates ==
    /\ \E c \in ApiCallers, pd \in ProofDatas, n \in 0..MaxAggLen :
          \E f \in [1..n -> Indices \X PublicValues] :
              SubmitCall(c, "aggregated", AggInput(f, pd))
    /\ UNCHANGED <<ledgerVars, pgVars, bpVars>>

ApiReadReturn ==
    /\ \E c \in ApiCallers : ReadReturn(c)
    /\ UNCHANGED <<ledgerVars, pgVars, bpVars>>

ApiLedgerExec ==
    /\ \E c \in ApiCallers : LedgerExec(c)
    /\ UNCHANGED <<pgVars, bpVars>>

ApiSubmitReturn ==
    /\ \E c \in ApiCallers : SubmitReturn(c)
    /\ UNCHANGED <<ledgerVars, pgVars, bpVars>>

\* the caller that awaited the call takes its result (or catches its error)
ApiCallSettled ==
    \E c \in ApiCallers :
        /\ sub[c].pc \in {"done", "failed"}
        /\ sub' = [sub EXCEPT ![c] = IdleCall]
        /\ UNCHANGED <<secVars, stateStorage, stateHistory, batchHistory>>
        /\ UNCHANGED <<ledgerVars, pgVars, bpVars>>

\* ---- StateRootManager: the balances (core/config/index.ts:330-352) ----
MaxBalance == 6
MaxValue == 2
MaxTransitions == 2

\* the addresses a caller passes; "0xA" and "0xa" differ only in case
BalanceAddresses == {"0xa", "0xA", "0xb"}

\* String.prototype.toLowerCase on the addresses above
toLowerCase(address) == IF address = "0xA" THEN "0xa" ELSE address

\* getBalance: the value stored under the lower-cased address, '0' when the key is
\* absent.  Balances are decimal strings that updateState reads with BigInt and
\* writes with toString; BigInt(n.toString()) = n for every bigint n, so the model
\* stores the integer.
getBalance(storage, address) ==
    IF toLowerCase(address) \in DOMAIN storage
    THEN storage[toLowerCase(address)]
    ELSE 0

\* setBalance: Map.set under the lower-cased address
setBalanceIn(storage, address, balance) ==
    (toLowerCase(address) :> balance) @@ storage

\* the loop of updateState from transition i on: both balances are read before
\* either is written, and the recipient is written last
RECURSIVE updateStateLoop(_, _, _)
updateStateLoop(storage, transitions, i) ==
    IF i > Len(transitions) THEN storage
    ELSE LET transition == transitions[i]
             fromBalance == getBalance(storage, transition.from)
             toBalance == getBalance(storage, transition.to)
             value == transition.value
         IN  IF transition.success /\ fromBalance >= value
             THEN updateStateLoop(
                      setBalanceIn(setBalanceIn(storage, transition.from,
                                                fromBalance - value),
                                   transition.to, toBalance + value),
                      transitions, i + 1)
             ELSE updateStateLoop(storage, transitions, i + 1)

\* StateTransition records and the lists of them that updateState is called with
StateTransitions == [success : BOOLEAN, from : BalanceAddresses, to : BalanceAddresses, value : 0..MaxValue]
StateTransitionLists(maxLen) == UNION {[1..n -> StateTransitions] : n \in 0..maxLen}

setBalance(address, balance) ==
    /\ stateStorage' = setBalanceIn(stateStorage, address, balance)
    /\ UNCHANGED <<stateHistory, batchHistory, sub>>
    /\ UNCHANGED <<ledgerVars, pgVars, bpVars, secVars>>

\* updateState; the calls whose result exceeds MaxBalance are outside the model
updateState(transitions) ==
    LET after == updateStateLoop(stateStorage, transitions, 1)
    IN  /\ \A a \in DOMAIN after : after[a] <= MaxBalance
        /\ stateStorage' = after
        /\ UNCHANGED <<stateHistory, batchHistory, sub>>
        /\ UNCHANGED <<ledgerVars, pgVars, bpVars, secVars>>

SrmInit ==
    /\ stateStorage = <<>>
    /\ stateHistory = <<>>
    /\ batchHistory = <<>>
    /\ sub = [c \in Callers |-> IdleCall]

(***************************************************************************)
(* The Prover (prover/src/prover.ts) and the ProofGenerator                *)
(* (core/proof-generator).                                                 *)
(***************************************************************************)
\* public values written by the in-tree prover, whatever the batch
MockPublicValues == [oldStateRoot |-> ZeroRoot, newStateRoot |-> OnesRoot, batchIndex |-> 0]

\* ZKProver.generateProof: the ProofResult of the k-th Prover call.  proofId is
\* drawn from the clock and a random number, so every call makes its own.
generateProofForBatch(k, transactions, index) ==
    [proofId |-> k,
     batchIndex |-> index,
     proofData |-> ZeroBytes,
     publicValues |-> MockPublicValues]

\* generateCacheKey: batch index, then from, to, value and nonce of each transaction
generateCacheKey(transactions, index) ==
    <<index,
      [i \in 1..Len(transactions) |->
          <<transactions[i].from, transactions[i].to,
            transactions[i].value, transactions[i].nonce>>]>>

\* faulty variant of HasPendingProof: the map of pending proofs is never consulted
HasPendingProof_Never(index) == FALSE

\* this.pendingProofs.has(batchIndex)
HasPendingProof(index) == index \in DOMAIN pendingProofs

IdleGen == [pc |-> "idle", transactions |-> <<>>, batchIndex |-> 0, awaiting |-> 0,
            owner |-> FALSE, result |-> 0, cacheHit |-> FALSE, overlaps |-> 0]

\* the Prover call, if any, that is pending for index
PendingProverCall(index) ==
    IF index \in DOMAIN pendingProofs
          /\ proverCalls[pendingProofs[index]].status = "pending"
    THEN pendingProofs[index]
    ELSE 0

\* what generateProof(transactions, index) does in the current state: it
\* returns a cached proof, is handed the pending promise, or calls the Prover
GenerateProofOutcome(transactions, index) ==
    IF generateCacheKey(transactions, index) \in DOMAIN proofCache THEN "cached"
    ELSE IF HasPendingProof(index) THEN "pending"
    ELSE "prover"

\* generateProof up to its first await: cache, then pending map, then the Prover
generateProof(c, transactions, index) ==
    LET cacheKey == generateCacheKey(transactions, index)
        call == [IdleGen EXCEPT !.transactions = transactions,
                                !.batchIndex = index,
                                !.overlaps = PendingProverCall(index)]
        k == Len(proverCalls) + 1
    IN
    /\ gen[c].pc = "idle"
    /\ IF cacheKey \in DOMAIN proofCache
       THEN /\ gen' = [gen EXCEPT ![c] = [call EXCEPT !.pc = "done",
                                                      !.cacheHit = TRUE,
                                                      !.result = proofCache[cacheKey]]]
            /\ UNCHANGED <<pendingProofs, proofCache, proverCalls>>
       ELSE IF HasPendingProof(index)
       THEN /\ gen' = [gen EXCEPT ![c] = [call EXCEPT !.pc = "waiting",
                                                      !.awaiting = pendingProofs[index]]]
            /\ UNCHANGED <<pendingProofs, proofCache, proverCalls>>
       ELSE /\ k <= MaxProverCalls
            /\ proverCalls' = Append(proverCalls,
                                     [transactions |-> transactions,
                                      batchIndex |-> index,
                                      status |-> "pending"])
            /\ pendingProofs' = [i \in DOMAIN pendingProofs \cup {index} |->
                                    IF i = index THEN k ELSE pendingProofs[i]]
            /\ gen' = [gen EXCEPT ![c] = [call EXCEPT !.pc = "waiting",
                                                      !.awaiting = k,
                                                      !.owner = TRUE]]
            /\ UNCHANGED proofCache

\* the Prover finishes call k, with a proof or with an error
ProverSettles(k, status) ==
    /\ proverCalls[k].status = "pending"
    /\ proverCalls' = [proverCalls EXCEPT ![k].status = status]
    /\ UNCHANGED <<pendingProofs, proofCache, gen>>

\* what the promise of Prover call k delivers
ProverOutcome(k) ==
    IF proverCalls[k].status = "resolved"
    THEN generateProofForBatch(k, proverCalls[k].transactions, proverCalls[k].batchIndex)
    ELSE "ProverError"

\* generateProof that returns the proof without storing it in the cache
GenerateProofResumes_NoCache(c) ==
    LET k == gen[c].awaiting IN
    /\ gen[c].pc = "waiting"
    /\ gen[c].owner
    /\ proverCalls[k].status # "pending"
    /\ gen' = [gen EXCEPT ![c].pc = IF proverCalls[k].status = "resolved"
                                    THEN "done" ELSE "failed",
                          ![c].result = ProverOutcome(k)]
    /\ pendingProofs' = [i \in DOMAIN pendingProofs \ {gen[c].batchIndex} |->
                            pendingProofs[i]]
    /\ UNCHANGED <<proofCache, proverCalls>>

\* generateProof whose pending entry is deleted after a proof only, not in a
\* `finally`
GenerateProofResumes_NoFinally(c) ==
    LET k == gen[c].awaiting
        cacheKey == generateCacheKey(gen[c].transactions, gen[c].batchIndex)
    IN
    /\ gen[c].pc = "waiting"
    /\ gen[c].owner
    /\ proverCalls[k].status # "pending"
    /\ IF proverCalls[k].status = "resolved"
       THEN /\ proofCache' = [x \in DOMAIN proofCache \cup {cacheKey} |->
                                 IF x = cacheKey THEN ProverOutcome(k) ELSE proofCache[x]]
            /\ gen' = [gen EXCEPT ![c].pc = "done", ![c].result = ProverOutcome(k)]
            /\ pendingProofs' = [i \in DOMAIN pendingProofs \ {gen[c].batchIndex} |->
                                    pendingProofs[i]]
       ELSE /\ gen' = [gen EXCEPT ![c].pc = "failed", ![c].result = ProverOutcome(k)]
            /\ UNCHANGED <<proofCache, pendingProofs>>
    /\ UNCHANGED proverCalls

\* generateProof after `await proofPromise`, in the call that made the Prover
\* call: cache the proof, and in either case forget the pending entry
GenerateProofResumes(c) ==
    LET k == gen[c].awaiting
        cacheKey == generateCacheKey(gen[c].transactions, gen[c].batchIndex)
    IN
    /\ gen[c].pc = "waiting"
    /\ gen[c].owner
    /\ proverCalls[k].status # "pending"
    /\ IF proverCalls[k].status = "resolved"
       THEN /\ proofCache' = [x \in DOMAIN proofCache \cup {cacheKey} |->
                                 IF x = cacheKey THEN ProverOutcome(k) ELSE proofCache[x]]
            /\ gen' = [gen EXCEPT ![c].pc = "done", ![c].result = ProverOutcome(k)]
       ELSE /\ gen' = [gen EXCEPT ![c].pc = "failed", ![c].result = ProverOutcome(k)]
            /\ UNCHANGED proofCache
    /\ pendingProofs' = [i \in DOMAIN pendingProofs \ {gen[c].batchIndex} |->
                            pendingProofs[i]]
    /\ UNCHANGED proverCalls

\* a call that was handed the pending promise receives what it delivers
GenerateProofReceives(c) ==
    LET k == gen[c].awaiting IN
    /\ gen[c].pc = "waiting"
    /\ ~gen[c].owner
    /\ proverCalls[k].status # "pending"
    /\ gen' = [gen EXCEPT ![c].pc = IF proverCalls[k].status = "resolved"
                                    THEN "done" ELSE "failed",
                          ![c].result = ProverOutcome(k)]
    /\ UNCHANGED <<pendingProofs, proofCache, proverCalls>>

\* the caller has taken the result of its call
GenerateProofSettled(c) ==
    /\ gen[c].pc \in {"done", "failed"}
    /\ gen' = [gen EXCEPT ![c] = IdleGen]
    /\ UNCHANGED <<pendingProofs, proofCache, proverCalls>>

\* getCacheSize
getCacheSize == Cardinality(DOMAIN proofCache)

\* clearCache
clearCache ==
    /\ proofCache # <<>>
    /\ proofCache' = <<>>
    /\ UNCHANGED <<pendingProofs, proverCalls, gen>>
    /\ UNCHANGED <<ledgerVars, srmVars, secVars, bpVars>>

PgGenerateProof ==
    /\ \E c \in PgCallers, txs \in PgTxLists, i \in Indices : generateProof(c, txs, i)
    /\ UNCHANGED <<ledgerVars, srmVars, secVars, bpVars>>

PgProverResolves ==
    /\ \E k \in 1..Len(proverCalls) : ProverSettles(k, "resolved")
    /\ UNCHANGED <<ledgerVars, srmVars, secVars, bpVars>>

PgProverRejects ==
    /\ \E k \in 1..Len(proverCalls) : ProverSettles(k, "rejected")
    /\ UNCHANGED <<ledgerVars, srmVars, secVars, bpVars>>

PgResumes ==
    /\ \E c \in PgCallers : GenerateProofResumes(c)
    /\ UNCHANGED <<ledgerVars, srmVars, secVars, bpVars>>

PgReceives ==
    /\ \E c \in PgCallers : GenerateProofReceives(c)
    /\ UNCHANGED <<ledgerVars, srmVars, secVars, bpVars>>

PgSettled ==
    /\ \E c \in PgCallers : GenerateProofSettled(c)
    /\ UNCHANGED <<ledgerVars, srmVars, secVars, bpVars>>

\* the ProofGenerator after construction
PgInit ==
    /\ pendingProofs = <<>>
    /\ proofCache = <<>>
    /\ proverCalls = <<>>
    /\ gen = [c \in PgCallers |-> IdleGen]

(***************************************************************************)
(* BatchProcessor (core/batch-processor).                                  *)
(*                                                                         *)
(* A queued transaction is the object that was pushed: an entry pairs the  *)
(* transaction with the number of its acceptance.                          *)
(***************************************************************************)

\* keccak256 of the JSON text of the seven fields, which is equal exactly for
\* equal field values
generateTransactionHash(tx) ==
    <<"keccak256", tx.from, tx.to, tx.value, tx.data, tx.nonce, tx.gasLimit, tx.gasPrice>>

\* validateTransaction without the test of the lower gas limit
validateTransaction_NoMinimum(tx) ==
    IF tx.from \notin Addresses THEN "Invalid from address"
    ELSE IF tx.to \notin Addresses THEN "Invalid to address"
    ELSE IF tx.gasLimit > MaxGasLimit THEN "Gas limit exceeds maximum allowed"
    ELSE IF tx.nonce < 0 THEN "Nonce must be non-negative"
    ELSE IF tx.gasPrice < 0 THEN "Gas price must be non-negative"
    ELSE IF tx.value < 0 THEN "Value must be non-negative"
    ELSE IF tx.data # "" /\ tx.data \notin HexPayloads THEN "Data must be a hex string"
    ELSE "ok"

\* validateTransaction: "ok", or the message of the Error it throws
validateTransaction(tx) ==
    IF tx.from \notin Addresses THEN "Invalid from address"
    ELSE IF tx.to \notin Addresses THEN "Invalid to address"
    ELSE IF tx.gasLimit > MaxGasLimit THEN "Gas limit exceeds maximum allowed"
    ELSE IF tx.gasLimit < MinGasLimit THEN "Gas limit below minimum required"
    ELSE IF tx.nonce < 0 THEN "Nonce must be non-negative"
    ELSE IF tx.gasPrice < 0 THEN "Gas price must be non-negative"
    ELSE IF tx.value < 0 THEN "Value must be non-negative"
    ELSE IF tx.data # "" /\ tx.data \notin HexPayloads THEN "Data must be a hex string"
    ELSE "ok"

\* what addTransaction(tx) does in the current state: it throws the Error of
\* validateTransaction, returns at once for a digest it holds, or queues tx
AddTransactionOutcome(tx) ==
    IF validateTransaction(tx) # "ok" THEN validateTransaction(tx)
    ELSE IF generateTransactionHash(tx) \in transactionHashes THEN "duplicate"
    ELSE "queued"

\* addTransaction(tx)
AddTransaction(tx) ==
    IF AddTransactionOutcome(tx) # "queued"
    THEN UNCHANGED <<pendingTransactions, transactionHashes, accepted>>
    ELSE /\ accepted < MaxAccepted
         /\ pendingTransactions' =
                Append(pendingTransactions, [uid |-> accepted + 1, tx |-> tx])
         /\ transactionHashes' = transactionHashes \cup {generateTransactionHash(tx)}
         /\ accepted' = accepted + 1

addTransaction ==
    /\ \E tx \in TxInputs : AddTransaction(tx)
    /\ UNCHANGED <<batchIndex, processing, batchStats, creates, cyc, force,
                   isRunning, intervalId, timers, totalBatches, lastBatchTimestamp>>
    /\ UNCHANGED <<ledgerVars, srmVars, secVars, pgVars>>

\* the transactions offered to addTransactions, and the lists of them
BulkInputs == {TxA, TxA2, TxB, TxLowGas, TxBadData}
BulkLists == UNION {[1..n -> BulkInputs] : n \in 0..MaxListLen}

\* the loop of addTransactions in which a digest is tested but not recorded
\* until the loop has ended
RECURSIVE AddTransactionsLoop_NoMark(_, _, _, _)
AddTransactionsLoop_NoMark(txs, i, validTxs, hashes) ==
    IF i > Len(txs)
    THEN [validTxs |-> validTxs,
          hashes |-> hashes \cup {generateTransactionHash(validTxs[k]) :
                                     k \in 1..Len(validTxs)}]
    ELSE IF validateTransaction(txs[i]) # "ok"
    THEN AddTransactionsLoop_NoMark(txs, i + 1, validTxs, hashes)
    ELSE IF generateTransactionHash(txs[i]) \notin hashes
    THEN AddTransactionsLoop_NoMark(txs, i + 1, Append(validTxs, txs[i]), hashes)
    ELSE AddTransactionsLoop_NoMark(txs, i + 1, validTxs, hashes)

\* the loop of addTransactions from element i on: an Error of
\* validateTransaction is caught and the element skipped; a transaction whose
\* digest is not held is put on validTxs and its digest recorded at once
RECURSIVE AddTransactionsLoop(_, _, _, _)
AddTransactionsLoop(txs, i, validTxs, hashes) ==
    IF i > Len(txs)
    THEN [validTxs |-> validTxs, hashes |-> hashes]
    ELSE IF validateTransaction(txs[i]) # "ok"
    THEN AddTransactionsLoop(txs, i + 1, validTxs, hashes)
    ELSE IF generateTransactionHash(txs[i]) \notin hashes
    THEN AddTransactionsLoop(txs, i + 1, Append(validTxs, txs[i]),
                             hashes \cup {generateTransactionHash(txs[i])})
    ELSE AddTransactionsLoop(txs, i + 1, validTxs, hashes)

\* the pool addTransactions(txs) leaves: validTxs is pushed behind the queue
PoolAfterAddTransactions(txs) ==
    LET r == AddTransactionsLoop(txs, 1, <<>>, transactionHashes)
    IN  [pendingTransactions |->
             pendingTransactions \o
                 [k \in 1..Len(r.validTxs) |-> [uid |-> accepted + k, tx |-> r.validTxs[k]]],
         transactionHashes |-> r.hashes,
         accepted |-> accepted + Len(r.validTxs)]

\* addTransactions(txs)
addTransactions ==
    /\ \E txs \in BulkLists :
          LET pool == PoolAfterAddTransactions(txs) IN
          /\ pool.accepted <= MaxAccepted
          /\ pendingTransactions' = pool.pendingTransactions
          /\ transactionHashes' = pool.transactionHashes
          /\ accepted' = pool.accepted
    /\ UNCHANGED <<batchIndex, processing, batchStats, creates, cyc, force,
                   isRunning, intervalId, timers, totalBatches, lastBatchTimestamp>>
    /\ UNCHANGED <<ledgerVars, srmVars, secVars, pgVars>>

\* clearPendingTransactions
clearPendingTransactions ==
    /\ pendingTransactions' = <<>>
    /\ transactionHashes' = {}
    /\ UNCHANGED <<batchIndex, processing, batchStats, accepted, creates, cyc, force,
                   isRunning, intervalId, timers, totalBatches, lastBatchTimestamp>>
    /\ UNCHANGED <<ledgerVars, srmVars, secVars, pgVars>>

\* calculateOptimalBatchSize for a queue of length n.  The multiplier
\* 1 / (currentGasPrice / 10), clamped to [0.5, 1.5], is kept in tenths.
calculateOptimalBatchSize(n) ==
    LET baseSize == Min(MaxTransactions, n)
        gasMultiplierTenths == Max(5, Min(15, 100 \div CurrentGasPrice))
        optimalSize == (baseSize * gasMultiplierTenths) \div 10
    IN  Max(1, Min(optimalSize, MaxTransactions))

\* calculateOptimalBatchSize that takes config.maxTransactions whatever the
\* length of the queue
calculateOptimalBatchSizeWith_IgnoresQueue(maxTransactions, n) == maxTransactions

\* calculateOptimalBatchSize for a queue of length n when config.maxTransactions
\* is maxTransactions
calculateOptimalBatchSizeWith(maxTransactions, n) ==
    LET baseSize == Min(maxTransactions, n)
        gasMultiplierTenths == Max(5, Min(15, 100 \div CurrentGasPrice))
        optimalSize == (baseSize * gasMultiplierTenths) \div 10
    IN  Max(1, Min(optimalSize, maxTransactions))

\* calculateGasUsage
RECURSIVE calculateGasUsage(_)
calculateGasUsage(ts) ==
    IF ts = <<>> THEN 0 ELSE ts[1].tx.gasLimit + calculateGasUsage(Tail(ts))

\* optimizeBatch with a sort that puts a transaction before those of equal
\* gasLimit * gasPrice that arrived earlier
RECURSIVE optimizeBatch_Unstable(_)
optimizeBatch_Unstable(ts) ==
    IF Len(ts) <= 1 THEN ts
    ELSE LET sorted == optimizeBatch_Unstable(SubSeq(ts, 1, Len(ts) - 1))
             x == ts[Len(ts)]
             pos == Cardinality({i \in 1..Len(sorted) :
                        sorted[i].tx.gasLimit * sorted[i].tx.gasPrice
                            > x.tx.gasLimit * x.tx.gasPrice})
         IN  SubSeq(sorted, 1, pos) \o <<x>> \o SubSeq(sorted, pos + 1, Len(sorted))

\* optimizeBatch: Array.prototype.sort (stable) by descending gasLimit * gasPrice
RECURSIVE optimizeBatch(_)
optimizeBatch(ts) ==
    IF Len(ts) <= 1 THEN ts
    ELSE LET sorted == optimizeBatch(SubSeq(ts, 1, Len(ts) - 1))
             x == ts[Len(ts)]
             pos == Cardinality({i \in 1..Len(sorted) :
                        sorted[i].tx.gasLimit * sorted[i].tx.gasPrice
                            >= x.tx.gasLimit * x.tx.gasPrice})
         IN  SubSeq(sorted, 1, pos) \o <<x>> \o SubSeq(sorted, pos + 1, Len(sorted))

\* faulty variant of RemainingAfterDrain: the batch is copied, not removed
RemainingAfterDrain_Kept(q, batchSize) == q

\* this.pendingTransactions.slice(batchSize)
RemainingAfterDrain(q, batchSize) == SubSeq(q, batchSize + 1, Len(q))

\* the transaction lists that n createBatch calls made one after the other,
\* without an await in between, take from queue q (while it is not empty)
RECURSIVE DrainBatches(_, _)
DrainBatches(q, n) ==
    IF n = 0 \/ Len(q) = 0 THEN <<>>
    ELSE LET batchSize == calculateOptimalBatchSize(Len(q))
         IN  <<SubSeq(q, 1, batchSize)>>
                 \o DrainBatches(RemainingAfterDrain(q, batchSize), n - 1)

\* the queue those calls leave
RECURSIVE DrainRest(_, _)
DrainRest(q, n) ==
    IF n = 0 \/ Len(q) = 0 THEN q
    ELSE DrainRest(RemainingAfterDrain(q, calculateOptimalBatchSize(Len(q))), n - 1)

\* createBatch up to its await, n times for one owner: each call drains its
\* batch, sorts it and hands it to the Prover with the current this.batchIndex
NewCreates(owner, q, n) ==
    LET bs == DrainBatches(q, n)
    IN  [i \in 1..Len(bs) |->
            [owner |-> owner,
             transactions |-> optimizeBatch(bs[i]),
             batchIndex |-> batchIndex,
             st |-> "proving"]]

\* the proof createBatch call i returns
ProofOf(i) ==
    generateProofForBatch(i, [j \in 1..Len(creates[i].transactions) |->
                                    creates[i].transactions[j].tx],
                          creates[i].batchIndex)

\* q.slice(0, k)
SliceHead(q, k) == SubSeq(q, 1, Min(k, Len(q)))

\* updateConfig({maxTransactions}) followed by createBatch up to its await, for
\* a queue that is not empty: the batch size is computed from the new
\* configuration, the batch is sliced off the head of the queue, sorted and
\* handed to the Prover
createBatchConfigured ==
    /\ pendingTransactions # <<>>
    /\ \E maxTransactions \in 1..MaxConfigured :
          LET batchSize == calculateOptimalBatchSizeWith(maxTransactions,
                                                         Len(pendingTransactions))
              batchTransactions == SliceHead(pendingTransactions, batchSize)
          IN  /\ pendingTransactions' = RemainingAfterDrain(pendingTransactions, batchSize)
              /\ creates' = Append(creates,
                                   [owner |-> "direct",
                                    transactions |-> optimizeBatch(batchTransactions),
                                    batchIndex |-> batchIndex,
                                    st |-> "proving"])
    /\ UNCHANGED <<transactionHashes, batchIndex, processing, batchStats, accepted, cyc,
                   force, isRunning, intervalId, timers, totalBatches, lastBatchTimestamp>>
    /\ UNCHANGED <<ledgerVars, srmVars, secVars, pgVars>>

\* by: who runs the cycle, the callback of the interval timer ("timer") or a
\* direct call of processBatch ("call")
IdleCycle == [pc |-> "idle", by |-> "none", allProofs |-> <<>>, round |-> {},
              toPost |-> <<>>, final |-> FALSE]
IdleForce == [pc |-> "idle", create |-> 0]

\* createBatch after `await generateProofForBatch`: the statistics are stored
\* under the current this.batchIndex, which is then incremented.  The caller of
\* createAndPostBatch goes on into postBatchToL1.
CreateBatchResumes ==
    /\ \E i \in 1..Len(creates) :
          /\ creates[i].st = "proving"
          /\ creates' = [creates EXCEPT ![i].st = "returned"]
          /\ batchStats' =
                 (batchIndex :> [transactionCount |-> Len(creates[i].transactions),
                                 gasUsed |-> calculateGasUsage(creates[i].transactions)])
                     @@ batchStats
          /\ batchIndex' = batchIndex + 1
          /\ force' = [f \in ForceCallers |->
                          IF force[f].pc = "creating" /\ force[f].create = i
                          THEN [force[f] EXCEPT !.pc = "posting"]
                          ELSE force[f]]
    /\ UNCHANGED <<pendingTransactions, transactionHashes, processing, accepted, cyc,
                   isRunning, intervalId, timers, totalBatches, lastBatchTimestamp>>
    /\ UNCHANGED <<ledgerVars, srmVars, secVars, pgVars>>

\* createBatch that puts its transactions back at the head of the queue when
\* the Prover fails
CreateBatchThrows_Requeues ==
    /\ \E i \in 1..Len(creates) :
          /\ creates[i].st = "proving"
          /\ creates' = [creates EXCEPT ![i].st = "threw"]
          /\ pendingTransactions' = creates[i].transactions \o pendingTransactions
          /\ force' = [f \in ForceCallers |->
                          IF force[f].pc = "creating" /\ force[f].create = i
                          THEN IdleForce
                          ELSE force[f]]
    /\ UNCHANGED <<transactionHashes, batchIndex, processing,
                   batchStats, accepted, cyc,
                   isRunning, intervalId, timers, totalBatches, lastBatchTimestamp>>
    /\ UNCHANGED <<ledgerVars, srmVars, secVars, pgVars>>

\* the Prover fails: createBatch throws, and so does createAndPostBatch
CreateBatchThrows ==
    /\ \E i \in 1..Len(creates) :
          /\ creates[i].st = "proving"
          /\ creates' = [creates EXCEPT ![i].st = "threw"]
          /\ force' = [f \in ForceCallers |->
                          IF force[f].pc = "creating" /\ force[f].create = i
                          THEN IdleForce
                          ELSE force[f]]
    /\ UNCHANGED <<pendingTransactions, transactionHashes, batchIndex, processing,
                   batchStats, accepted, cyc,
                   isRunning, intervalId, timers, totalBatches, lastBatchTimestamp>>
    /\ UNCHANGED <<ledgerVars, srmVars, secVars, pgVars>>

\* what createBatch does in the current state: it throws on an empty queue,
\* and drains a batch and calls the Prover otherwise
CreateBatchOutcome ==
    IF pendingTransactions = <<>> THEN "No pending transactions to batch"
    ELSE "proving"

\* createBatch called directly, up to its await
createBatch ==
    /\ IF CreateBatchOutcome # "proving"
       THEN UNCHANGED <<pendingTransactions, creates>>
       ELSE /\ pendingTransactions' = DrainRest(pendingTransactions, 1)
            /\ creates' = creates \o NewCreates("direct", pendingTransactions, 1)
    /\ UNCHANGED <<transactionHashes, batchIndex, processing, batchStats, accepted, cyc,
                   force, isRunning, intervalId, timers, totalBatches, lastBatchTimestamp>>
    /\ UNCHANGED <<ledgerVars, srmVars, secVars, pgVars>>

\* processBatch that counts the proofs of a cycle only while the sequencer runs
CycleEnds_OnlyWhileRunning(proofs, ok) ==
    /\ processing' = FALSE
    /\ cyc' = IdleCycle
    /\ IF ok /\ Len(proofs) > 0 /\ isRunning
       THEN /\ lastBatchTimestamp' = 1
            /\ totalBatches' = totalBatches + Len(proofs)
       ELSE UNCHANGED <<totalBatches, lastBatchTimestamp>>

\* processPendingTransactions leaving without its `finally`
CycleEnds_GuardKept(proofs, ok) ==
    /\ processing' = processing
    /\ cyc' = IdleCycle
    /\ IF ok /\ Len(proofs) > 0
       THEN /\ lastBatchTimestamp' = 1
            /\ totalBatches' = totalBatches + Len(proofs)
       ELSE UNCHANGED <<totalBatches, lastBatchTimestamp>>

\* processPendingTransactions leaves through `finally`; processBatch then counts
\* the proofs returned, or swallows the error
CycleEnds(proofs, ok) ==
    /\ processing' = FALSE
    /\ cyc' = IdleCycle
    /\ IF ok /\ Len(proofs) > 0
       THEN /\ lastBatchTimestamp' = 1
            /\ totalBatches' = totalBatches + Len(proofs)
       ELSE UNCHANGED <<totalBatches, lastBatchTimestamp>>

\* processPendingTransactions without the submission after the loop: the
\* proofs that do not fill an aggregate are returned unposted
CycleLoop_DropsLeftover(by, allProofs) ==
    IF pendingTransactions # <<>>
    THEN LET batchCount ==
                 Min(MaxConcurrentBatches,
                     (Len(pendingTransactions) + MaxTransactions - 1) \div MaxTransactions)
             new == NewCreates("cycle", pendingTransactions, batchCount)
         IN  /\ pendingTransactions' = DrainRest(pendingTransactions, batchCount)
             /\ creates' = creates \o new
             /\ cyc' = [pc |-> "creating", by |-> by, allProofs |-> allProofs,
                        round |-> (Len(creates) + 1)..(Len(creates) + Len(new)),
                        toPost |-> <<>>, final |-> FALSE]
             /\ processing' = TRUE
             /\ UNCHANGED <<totalBatches, lastBatchTimestamp>>
    ELSE /\ CycleEnds(allProofs, TRUE)
         /\ UNCHANGED <<pendingTransactions, creates>>

\* the head of the while loop of processPendingTransactions, reached with
\* allProofs: the next round of createBatch calls, or the code after the loop
CycleLoop(by, allProofs) ==
    IF pendingTransactions # <<>>
    THEN LET batchCount ==
                 Min(MaxConcurrentBatches,
                     (Len(pendingTransactions) + MaxTransactions - 1) \div MaxTransactions)
             new == NewCreates("cycle", pendingTransactions, batchCount)
         IN  /\ pendingTransactions' = DrainRest(pendingTransactions, batchCount)
             /\ creates' = creates \o new
             /\ cyc' = [pc |-> "creating", by |-> by, allProofs |-> allProofs,
                        round |-> (Len(creates) + 1)..(Len(creates) + Len(new)),
                        toPost |-> <<>>, final |-> FALSE]
             /\ processing' = TRUE
             /\ UNCHANGED <<totalBatches, lastBatchTimestamp>>
    ELSE IF allProofs # <<>>
    THEN /\ cyc' = [pc |-> "posting", by |-> by, allProofs |-> allProofs, round |-> {},
                    toPost |-> allProofs, final |-> TRUE]
         /\ processing' = TRUE
         /\ UNCHANGED <<pendingTransactions, creates, totalBatches, lastBatchTimestamp>>
    ELSE /\ CycleEnds(allProofs, TRUE)
         /\ UNCHANGED <<pendingTransactions, creates>>

\* processBatch without the tests of the processing flag: a cycle is started
\* whenever the queue is not empty
ProcessBatchOutcome_Unguarded ==
    IF pendingTransactions = <<>> THEN "empty" ELSE "cycle"

\* what a call of processBatch does in the current state: it returns [] for an
\* empty queue and while processing is set, and starts a cycle otherwise
ProcessBatchOutcome ==
    IF pendingTransactions = <<>> THEN "empty"
    ELSE IF processing THEN "busy"
    ELSE "cycle"

\* RollupSequencer.processBatch up to its await: nothing happens with an empty
\* queue or while processing is set
processBatch(by) ==
    /\ IF ProcessBatchOutcome # "cycle"
       THEN UNCHANGED <<pendingTransactions, creates, cyc, processing,
                        totalBatches, lastBatchTimestamp>>
       ELSE CycleLoop(by, <<>>)
    /\ UNCHANGED <<transactionHashes, batchIndex, batchStats, accepted, force,
                   isRunning, intervalId, timers>>
    /\ UNCHANGED <<ledgerVars, srmVars, secVars, pgVars>>

\* the interval timer fires
Tick ==
    /\ timers > 0
    /\ processBatch("timer")

\* processBatch called directly
CallProcessBatch == processBatch("call")

\* Promise.all of the round resolves: the proofs are appended in the order of
\* the calls, and a full aggregate is split off and posted
CycleRoundDone ==
    /\ cyc.pc = "creating"
    /\ \A i \in cyc.round : creates[i].st = "returned"
    /\ LET lo == CHOOSE i \in cyc.round : \A j \in cyc.round : i <= j
           batchProofs == [k \in 1..Cardinality(cyc.round) |-> ProofOf(lo + k - 1)]
           allProofs == cyc.allProofs \o batchProofs
       IN  IF Len(allProofs) >= AggregationSize
           THEN /\ cyc' = [pc |-> "posting", by |-> cyc.by,
                           allProofs |-> SubSeq(allProofs, AggregationSize + 1, Len(allProofs)),
                           round |-> {},
                           toPost |-> SubSeq(allProofs, 1, AggregationSize),
                           final |-> FALSE]
                /\ UNCHANGED <<pendingTransactions, creates, processing,
                               totalBatches, lastBatchTimestamp>>
           ELSE CycleLoop(cyc.by, allProofs)
    /\ UNCHANGED <<transactionHashes, batchIndex, batchStats, accepted, force,
                   isRunning, intervalId, timers>>
    /\ UNCHANGED <<ledgerVars, srmVars, secVars, pgVars>>

\* Promise.all of the round rejects: the cycle ends while the other createBatch
\* calls of the round go on
CycleRoundFails ==
    /\ cyc.pc = "creating"
    /\ \E i \in cyc.round : creates[i].st = "threw"
    /\ CycleEnds(<<>>, FALSE)
    /\ UNCHANGED <<pendingTransactions, transactionHashes, batchIndex, batchStats,
                   accepted, creates, force, isRunning, intervalId, timers>>
    /\ UNCHANGED <<ledgerVars, srmVars, secVars, pgVars>>

\* postAggregatedBatchesToL1 throws before the submission: the gas estimate it
\* scales with .mul() may be a value without that method (index.ts:273, 303)
CyclePostThrows ==
    /\ cyc.pc = "posting"
    /\ CycleEnds(<<>>, FALSE)
    /\ UNCHANGED <<pendingTransactions, transactionHashes, batchIndex, batchStats,
                   accepted, creates, force, isRunning, intervalId, timers>>
    /\ UNCHANGED <<ledgerVars, srmVars, secVars, pgVars>>

\* postAggregatedBatchesToL1 calls submitAggregatedStateUpdates
CyclePostSubmits ==
    /\ cyc.pc = "posting"
    /\ SubmitCall("cycle", "aggregated", cyc.toPost)
    /\ cyc' = [cyc EXCEPT !.pc = "submitting"]
    /\ UNCHANGED <<pendingTransactions, transactionHashes, batchIndex, processing,
                   batchStats, accepted, creates, force,
                   isRunning, intervalId, timers, totalBatches, lastBatchTimestamp>>
    /\ UNCHANGED <<ledgerVars, pgVars>>

\* submitAggregatedStateUpdates has returned or thrown
CyclePostReturns ==
    /\ cyc.pc = "submitting"
    /\ sub["cycle"].pc \in {"done", "failed"}
    /\ sub' = [sub EXCEPT !["cycle"] = IdleCall]
    /\ IF sub["cycle"].pc = "failed"
       THEN /\ CycleEnds(<<>>, FALSE)
            /\ UNCHANGED <<pendingTransactions, creates>>
       ELSE IF cyc.final
       THEN /\ CycleEnds(cyc.allProofs, TRUE)
            /\ UNCHANGED <<pendingTransactions, creates>>
       ELSE CycleLoop(cyc.by, cyc.allProofs)
    /\ UNCHANGED <<transactionHashes, batchIndex, batchStats, accepted, force,
                   isRunning, intervalId, timers>>
    /\ UNCHANGED <<secVars, stateStorage, stateHistory, batchHistory>>
    /\ UNCHANGED <<ledgerVars, pgVars>>

\* postAggregatedBatchesToL1 against a settlement contract that accepts the
\* aggregate: submitAggregatedStateUpdates records the proofs in the history and
\* returns true (config/index.ts:459-480).  The batches of the aggregate are
\* marked "posted" in the history of createBatch calls.
CyclePostAccepted ==
    /\ cyc.pc = "posting"
    /\ sub["cycle"].pc = "idle"
    /\ sub' = [sub EXCEPT !["cycle"] = [pc |-> "done", kind |-> "aggregated",
                                        proofs |-> cyc.toPost,
                                        currentRoot |-> currentStateRoot,
                                        error |-> "none", ledgerCalled |-> TRUE]]
    /\ stateHistory' = SetStateHistory(stateHistory, cyc.toPost, 1)
    /\ batchHistory' = SetBatchHistory(batchHistory, cyc.toPost, 1)
    /\ UNCHANGED <<secVars, stateStorage>>
    /\ creates' = [i \in 1..Len(creates) |->
                      IF \E j \in 1..Len(cyc.toPost) : cyc.toPost[j].proofId = i
                      THEN [creates[i] EXCEPT !.st = "posted"]
                      ELSE creates[i]]
    /\ cyc' = [cyc EXCEPT !.pc = "submitting"]
    /\ UNCHANGED <<pendingTransactions, transactionHashes, batchIndex, processing,
                   batchStats, accepted, force,
                   isRunning, intervalId, timers, totalBatches, lastBatchTimestamp>>
    /\ UNCHANGED <<ledgerVars, pgVars>>

\* forceBatch without the test of the queue: createAndPostBatch is called at once
ForceBatchOutcome_Unchecked == "createAndPostBatch"

\* what forceBatch does in the current state: it throws on an empty queue, and
\* calls createAndPostBatch otherwise
ForceBatchOutcome ==
    IF pendingTransactions = <<>> THEN "No pending transactions to batch"
    ELSE "createAndPostBatch"

\* RollupSequencer.forceBatch up to the await in createBatch: it throws on an
\* empty queue, and does not look at the processing flag.  A call takes the
\* first free caller record.
forceBatch ==
    /\ \E f \in ForceCallers :
          /\ force[f].pc = "idle"
          /\ f = "f1" \/ force["f1"].pc # "idle"
          /\ IF ForceBatchOutcome # "createAndPostBatch"
             THEN UNCHANGED <<pendingTransactions, creates, force>>
             ELSE /\ pendingTransactions' = DrainRest(pendingTransactions, 1)
                  /\ creates' = creates \o NewCreates(f, pendingTransactions, 1)
                  /\ force' = [force EXCEPT ![f] = [pc |-> "creating",
                                                     create |-> Len(creates) + 1]]
    /\ UNCHANGED <<transactionHashes, batchIndex, processing, batchStats, accepted, cyc,
                   isRunning, intervalId, timers, totalBatches, lastBatchTimestamp>>
    /\ UNCHANGED <<ledgerVars, srmVars, secVars, pgVars>>

\* postBatchToL1 calls submitStateUpdate
ForcePostSubmits ==
    /\ \E f \in ForceCallers :
          /\ force[f].pc = "posting"
          /\ SubmitCall(f, "single", <<ProofOf(force[f].create)>>)
          /\ force' = [force EXCEPT ![f].pc = "submitting"]
    /\ UNCHANGED <<pendingTransactions, transactionHashes, batchIndex, processing,
                   batchStats, accepted, creates, cyc,
                   isRunning, intervalId, timers, totalBatches, lastBatchTimestamp>>
    /\ UNCHANGED <<ledgerVars, pgVars>>

\* submitStateUpdate has returned or thrown: forceBatch counts the batch, or
\* throws in its turn
ForcePostReturns ==
    /\ \E f \in ForceCallers :
          /\ force[f].pc = "submitting"
          /\ sub[f].pc \in {"done", "failed"}
          /\ sub' = [sub EXCEPT ![f] = IdleCall]
          /\ force' = [force EXCEPT ![f] = IdleForce]
          /\ IF sub[f].pc = "done"
             THEN /\ lastBatchTimestamp' = 1
                  /\ totalBatches' = totalBatches + 1
             ELSE UNCHANGED <<totalBatches, lastBatchTimestamp>>
    /\ UNCHANGED <<pendingTransactions, transactionHashes, batchIndex, processing,
                   batchStats, accepted, creates, cyc, isRunning, intervalId, timers>>
    /\ UNCHANGED <<secVars, stateStorage, stateHistory, batchHistory>>
    /\ UNCHANGED <<ledgerVars, pgVars>>

\* the steps of the submit* calls made by the pipeline
PipelineCallers == {"cycle"} \cup ForceCallers

PipelineReadReturn ==
    /\ \E c \in PipelineCallers : ReadReturn(c)
    /\ UNCHANGED <<ledgerVars, pgVars, bpVars>>

PipelineLedgerExec ==
    /\ \E c \in PipelineCallers : LedgerExec(c)
    /\ UNCHANGED <<pgVars, bpVars>>

PipelineSubmitReturn ==
    /\ \E c \in PipelineCallers : SubmitReturn(c)
    /\ UNCHANGED <<ledgerVars, pgVars, bpVars>>

(***************************************************************************)
(* RollupSequencer (core/sequencer).                                       *)
(***************************************************************************)
\* start without the test of isRunning: every call schedules a timer
start_Unguarded ==
    /\ isRunning' = TRUE
    /\ intervalId' = "timer"
    /\ timers' = timers + 1
    /\ UNCHANGED <<pendingTransactions, transactionHashes, batchIndex, processing,
                   batchStats, accepted, creates, cyc, force,
                   totalBatches, lastBatchTimestamp>>
    /\ UNCHANGED <<ledgerVars, srmVars, secVars, pgVars>>

\* start that sets isRunning and schedules no timer
start_NoTimer ==
    /\ IF isRunning
       THEN UNCHANGED <<isRunning, intervalId, timers>>
       ELSE /\ isRunning' = TRUE
            /\ intervalId' = "timer"
            /\ UNCHANGED timers
    /\ UNCHANGED <<pendingTransactions, transactionHashes, batchIndex, processing,
                   batchStats, accepted, creates, cyc, force,
                   totalBatches, lastBatchTimestamp>>
    /\ UNCHANGED <<ledgerVars, srmVars, secVars, pgVars>>

\* start
start ==
    /\ IF isRunning
       THEN UNCHANGED <<isRunning, intervalId, timers>>
       ELSE /\ isRunning' = TRUE
            /\ intervalId' = "timer"
            /\ timers' = timers + 1
    /\ UNCHANGED <<pendingTransactions, transactionHashes, batchIndex, processing,
                   batchStats, accepted, creates, cyc, force,
                   totalBatches, lastBatchTimestamp>>
    /\ UNCHANGED <<ledgerVars, srmVars, secVars, pgVars>>

\* stop
stop ==
    /\ IF ~isRunning
       THEN UNCHANGED <<isRunning, intervalId, timers>>
       ELSE /\ isRunning' = FALSE
            /\ IF intervalId # "null"
               THEN intervalId' = "null" /\ timers' = timers - 1
               ELSE UNCHANGED <<intervalId, timers>>
    /\ UNCHANGED <<pendingTransactions, transactionHashes, batchIndex, processing,
                   batchStats, accepted, creates, cyc, force,
                   totalBatches, lastBatchTimestamp>>
    /\ UNCHANGED <<ledgerVars, srmVars, secVars, pgVars>>

\* BatchProcessor and RollupSequencer after construction and
\* BatchProcessor.initialize() on the fresh ledger
BpInit ==
    /\ pendingTransactions = <<>>
    /\ transactionHashes = {}
    /\ batchIndex = 0
    /\ processing = FALSE
    /\ batchStats = <<>>
    /\ accepted = 0
    /\ creates = <<>>
    /\ cyc = IdleCycle
    /\ force = [f \in ForceCallers |-> IdleForce]
    /\ isRunning = FALSE
    /\ intervalId = "null"
    /\ timers = 0
    /\ totalBatches = 0
    /\ lastBatchTimestamp = 0

(***************************************************************************)
(* AccessControl and SecurityManager (core/security/index.ts) and the      *)
(* authorization methods of ZKRollup (unnamed/part_011)                    *)
(***************************************************************************)
MaxFailures == 5
MaxAuditLogs == 3
\* maxFailedAttempts in the SecurityConfig that ZKRollup builds
maxFailedAttempts == 5
\* config.security?.accessControl ?? true, and enableAuditLogging: true
enableAccessControl == TRUE
enableAuditLogging == TRUE

\* this.wallet.address, and the addresses callers pass
Wallet == "0xw"
SecAddresses == {Wallet, "0xa", "0xA", "0xb"}

\* AccessControl's constructor: every admin address is stored lower-cased and is
\* given the role ADMIN
ConstructedAdmins(admins) == {toLowerCase(a) : a \in admins}
ConstructedRoles(admins) == [a \in ConstructedAdmins(admins) |-> {"ADMIN"}]

\* AccessControl.addRole and removeRole, on the map of roles
addRoleIn(r, address, role) ==
    LET lowerAddr == toLowerCase(address)
    IN  IF lowerAddr \in DOMAIN r
        THEN [r EXCEPT ![lowerAddr] = @ \cup {role}]
        ELSE (lowerAddr :> {role}) @@ r

removeRoleIn(r, address, role) ==
    LET lowerAddr == toLowerCase(address)
    IN  IF lowerAddr \in DOMAIN r
        THEN [r EXCEPT ![lowerAddr] = @ \ {role}]
        ELSE r

\* AccessControl.hasRole: an admin address has every role
hasRole(address, role) ==
    LET lowerAddr == toLowerCase(address)
    IN  \/ lowerAddr \in adminAddresses
        \/ lowerAddr \in DOMAIN roles /\ role \in roles[lowerAddr]

isAdmin(address) == toLowerCase(address) \in adminAddresses
\* Array.from(this.adminAddresses), as the set of its elements
getAdminAddresses == adminAddresses

\* SecurityManager.isLockedOut; expired tells whether lockoutDuration has passed
\* since the last failed attempt
isLockedOut(address, expired) ==
    LET lowerAddr == toLowerCase(address)
    IN  /\ lowerAddr \in DOMAIN failedAttempts
        /\ failedAttempts[lowerAddr] >= maxFailedAttempts
        /\ ~expired

\* SecurityManager.checkAccess: "granted" when it returns, otherwise the error thrown
AccessOutcome(address, requiredRole, expired) ==
    IF ~enableAccessControl THEN "granted"
    ELSE IF isLockedOut(address, expired) THEN "locked"
    ELSE IF ~hasRole(address, requiredRole) THEN "denied"
    ELSE "granted"

\* recordFailedAttempt, called on the denied path only
AttemptsAfter(address, outcome) ==
    LET lowerAddr == toLowerCase(address)
        count == IF lowerAddr \in DOMAIN failedAttempts THEN failedAttempts[lowerAddr] ELSE 0
    IN  IF outcome = "denied"
        THEN (lowerAddr :> count + 1) @@ failedAttempts
        ELSE failedAttempts

\* logAudit: one more entry, the oldest dropped above the limit (1000 in the code)
logAudit(n) ==
    IF ~enableAuditLogging THEN n
    ELSE IF n + 1 > MaxAuditLogs THEN MaxAuditLogs ELSE n + 1

\* the entries after checkAccess: access_denied or access_granted is logged unless
\* access control is off or the account is locked out
LogsAfterCheck(outcome) ==
    IF ~enableAccessControl \/ outcome = "locked" THEN auditLogs ELSE logAudit(auditLogs)

\* the failure counts of the model stay within MaxFailures
WithinFailures(address, outcome) ==
    \A a \in DOMAIN AttemptsAfter(address, outcome) :
        AttemptsAfter(address, outcome)[a] <= MaxFailures

\* SecurityManager.checkAccess, reached through getSecurityManager()
checkAccess(address, requiredRole) ==
    \E expired \in BOOLEAN :
      LET outcome == AccessOutcome(address, requiredRole, expired)
      IN  /\ WithinFailures(address, outcome)
          /\ failedAttempts' = AttemptsAfter(address, outcome)
          /\ auditLogs' = LogsAfterCheck(outcome)
          /\ lastCall' = [op |-> "checkAccess", address |-> address, outcome |-> outcome]
          /\ UNCHANGED <<roles, adminAddresses>>
          /\ UNCHANGED <<ledgerVars, srmVars, pgVars, bpVars>>

\* ZKRollup.addAuthorizedAddress: checkAccess(wallet, ADMIN), then
\* securityManager.addRole(address, ADMIN), which logs role_added
addAuthorizedAddress(address) ==
    \E expired \in BOOLEAN :
      LET outcome == AccessOutcome(Wallet, "ADMIN", expired)
      IN  /\ WithinFailures(Wallet, outcome)
          /\ failedAttempts' = AttemptsAfter(Wallet, outcome)
          /\ IF outcome = "granted"
             THEN /\ roles' = addRoleIn(roles, address, "ADMIN")
                  /\ auditLogs' = logAudit(LogsAfterCheck(outcome))
             ELSE /\ roles' = roles
                  /\ auditLogs' = LogsAfterCheck(outcome)
          /\ lastCall' = [op |-> "addAuthorizedAddress", address |-> address,
                          outcome |-> outcome]
          /\ UNCHANGED adminAddresses
          /\ UNCHANGED <<ledgerVars, srmVars, pgVars, bpVars>>

\* ZKRollup.removeAuthorizedAddress: checkAccess(wallet, ADMIN), then
\* securityManager.removeRole(address, ADMIN), which logs role_removed
removeAuthorizedAddress(address) ==
    \E expired \in BOOLEAN :
      LET outcome == AccessOutcome(Wallet, "ADMIN", expired)
      IN  /\ WithinFailures(Wallet, outcome)
          /\ failedAttempts' = AttemptsAfter(Wallet, outcome)
          /\ IF outcome = "granted"
             THEN /\ roles' = removeRoleIn(roles, address, "ADMIN")
                  /\ auditLogs' = logAudit(LogsAfterCheck(outcome))
             ELSE /\ roles' = roles
                  /\ auditLogs' = LogsAfterCheck(outcome)
          /\ lastCall' = [op |-> "removeAuthorizedAddress", address |-> address,
                          outcome |-> outcome]
          /\ UNCHANGED adminAddresses
          /\ UNCHANGED <<ledgerVars, srmVars, pgVars, bpVars>>

NoCall == [op |-> "none", address |-> Wallet, outcome |-> "none"]

\* the SecurityManager that ZKRollup's constructor builds from the wallet and
\* config.security.authorizedAddresses
SecurityConstructed(authorizedAddresses) ==
    /\ roles = ConstructedRoles({Wallet} \cup authorizedAddresses)
    /\ adminAddresses = ConstructedAdmins({Wallet} \cup authorizedAddresses)
    /\ failedAttempts = <<>>
    /\ auditLogs = 0
    /\ lastCall = NoCall

SecInit == SecurityConstructed({})

(***************************************************************************)
(* Specifications.                                                         *)
(***************************************************************************)
\* the ledger alone, called directly by arbitrary accounts
InitLedger == LedgerInit /\ SrmInit /\ SecInit /\ PgInit /\ BpInit
NextLedger ==
    \/ ContractSubmitBatch
    \/ ContractSubmitAggregatedBatch
    \/ Pause
    \/ Unpause
    \/ SetValidProof
SpecLedger == InitLedger /\ [][NextLedger]_vars

\* the StateRootManager in front of the ledger, one call at a time
InitSrm == LedgerInit /\ SrmInit /\ SecInit /\ PgInit /\ BpInit
NextSrm ==
    \/ submitStateUpdate
    \/ submitAggregatedStateUpdates
    \/ ApiReadReturn
    \/ ApiLedgerExec
    \/ ApiSubmitReturn
    \/ ApiCallSettled
    \/ initialize
    \/ SetValidProof
SpecSrm == InitSrm /\ [][NextSrm]_vars

\* the StateRootManager with single submissions only
NextHistory ==
    \/ submitStateUpdate
    \/ ApiReadReturn
    \/ ApiLedgerExec
    \/ ApiSubmitReturn
    \/ ApiCallSettled
    \/ initialize
    \/ SetValidProof
SpecHistory == InitSrm /\ [][NextHistory]_vars

\* the ProofGenerator in front of the Prover, with overlapping callers
InitPg == LedgerInit /\ SrmInit /\ SecInit /\ PgInit /\ BpInit /\ currentStateRoot = ZeroRoot
NextPg ==
    \/ PgGenerateProof
    \/ PgProverResolves
    \/ PgProverRejects
    \/ PgResumes
    \/ PgReceives
    \/ PgSettled
    \/ clearCache
SpecPg == InitPg /\ [][NextPg]_vars

\* the pipeline: the sequencer drives the BatchProcessor, which proves batches
\* and posts them through the StateRootManager to the ledger
Init == LedgerInit /\ SrmInit /\ SecInit /\ PgInit /\ BpInit /\ currentStateRoot = ZeroRoot
Next ==
    \/ addTransaction
    \/ clearPendingTransactions
    \/ start
    \/ stop
    \/ Tick
    \/ CallProcessBatch
    \/ forceBatch
    \/ CreateBatchResumes
    \/ CreateBatchThrows
    \/ CycleRoundDone
    \/ CycleRoundFails
    \/ CyclePostThrows
    \/ CyclePostSubmits
    \/ CyclePostReturns
    \/ ForcePostSubmits
    \/ ForcePostReturns
    \/ PipelineReadReturn
    \/ PipelineLedgerExec
    \/ PipelineSubmitReturn
    \/ SetValidProof
Spec == Init /\ [][Next]_vars

\* the transaction queue under any calls of addTransaction,
\* clearPendingTransactions and createBatch, overlapping at will
InitPool == LedgerInit /\ SrmInit /\ SecInit /\ PgInit /\ BpInit /\ currentStateRoot = ZeroRoot
NextPool ==
    \/ addTransaction
    \/ clearPendingTransactions
    \/ createBatch
    \/ CreateBatchResumes
    \/ CreateBatchThrows
SpecPool == InitPool /\ [][NextPool]_vars

\* the pool filled one transaction at a time and by lists, and drained by
\* createBatch calls whose Prover call is pending or fails
NextBulk ==
    \/ addTransaction
    \/ addTransactions
    \/ clearPendingTransactions
    \/ createBatch
    \/ CreateBatchThrows
SpecBulk == InitPool /\ [][NextBulk]_vars

\* batches formed under a maxTransactions that updateConfig has set
NextBatch ==
    \/ addTransaction
    \/ clearPendingTransactions
    \/ createBatchConfigured
    \/ CreateBatchResumes
    \/ CreateBatchThrows
SpecBatch == InitPool /\ [][NextBatch]_vars

\* a queue of Len(f) distinct valid transactions, the k-th a copy of f[k] with
\* nonce k, as addTransaction calls leave it
QueueOf(f) ==
    [k \in 1..Len(f) |-> [uid |-> k, tx |-> [f[k] EXCEPT !.nonce = k]]]

\* a processor whose pool was filled before its first cycle
InitFilled ==
    /\ LedgerInit /\ SrmInit /\ SecInit /\ PgInit /\ currentStateRoot = ZeroRoot
    /\ \E n \in 0..MaxPool : \E f \in [1..n -> {TxA, TxB}] :
          /\ pendingTransactions = QueueOf(f)
          /\ transactionHashes = {generateTransactionHash(QueueOf(f)[k].tx) : k \in 1..n}
          /\ accepted = n
    /\ batchIndex = 0
    /\ processing = FALSE
    /\ batchStats = <<>>
    /\ creates = <<>>
    /\ cyc = IdleCycle
    /\ force = [f \in ForceCallers |-> IdleForce]
    /\ isRunning = FALSE
    /\ intervalId = "null"
    /\ timers = 0
    /\ totalBatches = 0
    /\ lastBatchTimestamp = 0

\* one cycle after the other, no transaction being added, with a Prover that
\* answers and a settlement contract that accepts
NextFilled ==
    \/ CallProcessBatch
    \/ CreateBatchResumes
    \/ CycleRoundDone
    \/ CyclePostAccepted
    \/ CyclePostReturns
SpecFilled ==
    /\ InitFilled /\ [][NextFilled]_vars
    /\ WF_vars(CreateBatchResumes)
    /\ WF_vars(CycleRoundDone)
    /\ WF_vars(CyclePostAccepted)
    /\ WF_vars(CyclePostReturns)

\* the sequencer on its timer: start and stop, the ticks, and the cycles the
\* ticks run through Prover, StateRootManager and ledger
NextSeq ==
    \/ addTransaction
    \/ start
    \/ stop
    \/ Tick
    \/ CreateBatchResumes
    \/ CreateBatchThrows
    \/ CycleRoundDone
    \/ CycleRoundFails
    \/ CyclePostThrows
    \/ CyclePostSubmits
    \/ CyclePostReturns
    \/ PipelineReadReturn
    \/ PipelineLedgerExec
    \/ PipelineSubmitReturn
    \/ SetValidProof
SpecSeq == Init /\ [][NextSeq]_vars

\* the sequencer's cycles against a settlement contract known by its interface
\* only: a posted aggregate is accepted, or the posting throws
NextCount ==
    \/ addTransaction
    \/ start
    \/ stop
    \/ Tick
    \/ CreateBatchResumes
    \/ CreateBatchThrows
    \/ CycleRoundDone
    \/ CycleRoundFails
    \/ CyclePostThrows
    \/ CyclePostAccepted
    \/ CyclePostReturns
SpecCount == Init /\ [][NextCount]_vars

\* the sequencer that is started and not stopped: its timer keeps firing, the
\* Prover answers every call with a proof or an error, and every step of a
\* submission is taken in the end
NextRunning ==
    \/ addTransaction
    \/ start
    \/ Tick
    \/ CreateBatchResumes
    \/ CreateBatchThrows
    \/ CycleRoundDone
    \/ CycleRoundFails
    \/ CyclePostThrows
    \/ CyclePostSubmits
    \/ CyclePostReturns
    \/ PipelineReadReturn
    \/ PipelineLedgerExec
    \/ PipelineSubmitReturn
    \/ SetValidProof
SpecRunning ==
    /\ Init /\ [][NextRunning]_vars
    /\ WF_vars(Tick)
    /\ WF_vars(CreateBatchResumes \/ CreateBatchThrows)
    /\ WF_vars(CycleRoundDone)
    /\ WF_vars(CycleRoundFails)
    /\ WF_vars(CyclePostThrows \/ CyclePostSubmits)
    /\ WF_vars(PipelineReadReturn)
    /\ WF_vars(PipelineLedgerExec)
    /\ WF_vars(PipelineSubmitReturn)
    /\ WF_vars(CyclePostReturns)

\* batches formed on demand: forceBatch and createBatch, overlapping at will
NextForce ==
    \/ addTransaction
    \/ forceBatch
    \/ createBatch
    \/ CreateBatchResumes
    \/ CreateBatchThrows
    \/ ForcePostSubmits
    \/ ForcePostReturns
    \/ PipelineReadReturn
    \/ PipelineLedgerExec
    \/ PipelineSubmitReturn
    \/ SetValidProof
SpecForce == Init /\ [][NextForce]_vars

\* ---- the balances of the StateRootManager, written by setBalance and updateState ----
NextState ==
    \/ \E address \in BalanceAddresses : \E balance \in 0..MaxBalance : setBalance(address, balance)
    \/ \E transitions \in StateTransitionLists(MaxTransitions) : updateState(transitions)
SpecState == InitSrm /\ [][NextState]_vars

\* ---- the security layer of ZKRollup, constructed with any authorized addresses ----
InitSecurity ==
    /\ LedgerInit /\ SrmInit /\ PgInit /\ BpInit
    /\ \E authorizedAddresses \in SUBSET (SecAddresses \ {Wallet}) :
          SecurityConstructed(authorizedAddresses)
NextSecurity ==
    \/ \E address \in SecAddresses : addAuthorizedAddress(address)
    \/ \E address \in SecAddresses : removeAuthorizedAddress(address)
    \/ \E address \in SecAddresses : checkAccess(address, "ADMIN")
SpecSecurity == InitSecurity /\ [][NextSecurity]_vars



(***************************************************************************)
(* Properties of the settlement ledger and of the StateRootManager.        *)
(***************************************************************************)
\* the step of call c that ends it: the rejection or the return of submit*
Ends(c) == sub[c].pc \in {"reading", "mined"} /\ sub'[c].pc \in {"done", "failed"}
HistoryUnchanged == stateHistory' = stateHistory /\ batchHistory' = batchHistory

\* the root chain of ps is broken with respect to the root the manager read
BrokenChain(ps, root) ==
    /\ Len(ps) > 0
    /\ \/ ps[1].publicValues.oldStateRoot # root
       \/ \E i \in 2..Len(ps) :
             ps[i].publicValues.oldStateRoot # ps[i - 1].publicValues.newStateRoot

\* C3: submitAggregatedStateUpdates called with a list of proofs whose root chain
\* is broken fails with InvalidTransition and leaves the root history and the
\* batch history as they were.
C3_BrokenAggregateIsInvalidTransition ==
    [][\A c \in Callers :
          (sub[c].kind = "aggregated" /\ Ends(c)
             /\ BrokenChain(sub[c].proofs, sub'[c].currentRoot))
          => (sub'[c].pc = "failed" /\ sub'[c].error = "InvalidTransition"
                /\ HistoryUnchanged)]_vars

Contiguous(S) == \A i \in S, j \in S : \A k \in i..j : k \in S

\* C6: the local root history is gap-free and write-once: its batch indices are
\* always a contiguous range, and no step changes the root (or the batch) stored
\* at an index that is already present.
C6_HistoryGapFreeWriteOnce ==
    [][/\ Contiguous(DOMAIN stateHistory')
       /\ \A k \in DOMAIN stateHistory :
             /\ k \in DOMAIN stateHistory'
             /\ stateHistory'[k] = stateHistory[k]
             /\ batchHistory'[k] = batchHistory[k]]_vars

\* C8: the ledger accepts batch indices 0, 1, 2, ... in order, none skipped and none
\* repeated: the accepted indices are exactly 0..currentBatchIndex-1 in increasing
\* order, and a batch is stored for exactly those indices, each finalized.
C8_LedgerAcceptsIndicesInOrder ==
    /\ Len(acceptedLog) = currentBatchIndex
    /\ \A i \in 1..Len(acceptedLog) : acceptedLog[i].batchIndex = i - 1
    /\ DOMAIN batches = 0..(currentBatchIndex - 1)
    /\ \A k \in DOMAIN batches : batches[k].finalized

\* two batches were accepted after a submission with a wrong index was rejected
C8_Witness ==
    /\ Len(acceptedLog) = 2
    /\ acceptedLog[1].batchIndex = 0 /\ acceptedLog[2].batchIndex = 1
    /\ lastRevert \in {"ok", "InvalidBatchIndex", "ProofAlreadyProcessed"}
    /\ currentBatchIndex = 2

\* the old root and the index the ledger expects of the i-th transition of ts
ExpectedOldRoot(ts, i) == IF i = 1 THEN currentStateRoot ELSE ts[i - 1].newStateRoot
ExpectedIndex(i) == currentBatchIndex + i - 1

\* the first transition of ts that does not continue the chain (0 if none)
FirstBreak(ts) ==
    LET bad == {i \in 1..Len(ts) : \/ ts[i].oldStateRoot # ExpectedOldRoot(ts, i)
                                   \/ ts[i].batchIndex # ExpectedIndex(i)}
    IN  IF bad = {} THEN 0 ELSE CHOOSE i \in bad : \A j \in bad : i <= j

\* the rejection the first break of ts calls for: InvalidStateRoot for an old
\* root that is not the expected one, InvalidBatchIndex for a wrong index
\* after a right root
RejectionFor(ts) ==
    IF ts[FirstBreak(ts)].oldStateRoot # ExpectedOldRoot(ts, FirstBreak(ts))
    THEN "InvalidStateRoot"
    ELSE "InvalidBatchIndex"

\* a step that changes what the ledger stores
LedgerChanges ==
    \/ currentStateRoot' # currentStateRoot
    \/ currentBatchIndex' # currentBatchIndex
    \/ batches' # batches
    \/ processedProofs' # processedProofs

\* C17, as stated: a submission whose old root is not the expected one is
\* rejected with InvalidStateRoot, and one whose index is not the expected one
\* with InvalidBatchIndex, whatever else holds of the ledger and the proof.
C17_Original ==
    /\ \A pd \in ProofDatas, t \in PublicValues :
          FirstBreak(<<t>>) # 0 => SubmitBatchCheck(pd, t) = RejectionFor(<<t>>)
    /\ \A pd \in ProofDatas, n \in 1..MaxAggLen : \A ts \in TransitionLists(n) :
          FirstBreak(ts) # 0 => SubmitAggregatedCheck(pd, ts) = RejectionFor(ts)

\* C17, amended: on a ledger that is not paused, a submission with a proof not
\* processed before whose transitions do not continue the chain is rejected
\* with InvalidStateRoot if the first that does not has a wrong old root, and
\* with InvalidBatchIndex if it has the right old root and a wrong index; only
\* an accepted submission changes currentStateRoot, currentBatchIndex, batches
\* or processedProofs.
C17_BrokenChainRejected ==
    /\ [](\A pd \in ProofDatas :
            (~paused /\ ProofHash(pd) \notin processedProofs) =>
               /\ \A t \in PublicValues :
                     FirstBreak(<<t>>) # 0
                        => SubmitBatchCheck(pd, t) = RejectionFor(<<t>>)
               /\ \A n \in 1..MaxAggLen : \A ts \in TransitionLists(n) :
                     FirstBreak(ts) # 0
                        => SubmitAggregatedCheck(pd, ts) = RejectionFor(ts))
    /\ [][LedgerChanges => lastRevert' = "ok" /\ acceptedLog' # acceptedLog]_vars

\* a batch was accepted, and the last submission was rejected for its old root
C17_Witness ==
    /\ lastRevert = "InvalidStateRoot"
    /\ Len(acceptedLog) = 1
    /\ ~paused

\* the transitions of the submission accepted in this step
AcceptedNow == SubSeq(acceptedLog', Len(acceptedLog) + 1, Len(acceptedLog'))

\* C18: an accepted submission of n transitions, which continue the chain from
\* the current root and index, sets currentStateRoot to the last new root,
\* adds n to currentBatchIndex, and stores each transition's new root as a
\* finalized batch at its index, leaving the other batches as they are.
C18_AcceptedSubmissionEffects ==
    [][acceptedLog' # acceptedLog =>
          LET ts == AcceptedNow
              n == Len(ts)
          IN  /\ n >= 1 /\ FirstBreak(ts) = 0
              /\ lastRevert' = "ok"
              /\ currentStateRoot' = ts[n].newStateRoot
              /\ currentBatchIndex' = currentBatchIndex + n
              /\ DOMAIN batches' = DOMAIN batches \cup {ts[i].batchIndex : i \in 1..n}
              /\ \A i \in 1..n :
                    batches'[ts[i].batchIndex] =
                        [stateRoot |-> ts[i].newStateRoot, finalized |-> TRUE]
              /\ \A k \in DOMAIN batches : batches'[k] = batches[k]]_vars

\* one submission, an aggregate of two transitions with different new roots,
\* was accepted
C18_Witness ==
    /\ Len(acceptedLog) = 2
    /\ Cardinality(processedProofs) = 1
    /\ currentBatchIndex = 2
    /\ lastRevert = "ok"
    /\ currentStateRoot = acceptedLog[2].newStateRoot
    /\ batches[0].stateRoot # batches[1].stateRoot

\* C19: while the ledger is paused every submitBatch and
\* submitAggregatedBatch is rejected, and no step changes currentStateRoot,
\* currentBatchIndex or batches; pause() and unpause() change the flag only;
\* while it is not paused a submission that continues the chain, with a valid
\* proof not processed before, is accepted.
C19_PausedLedgerRejects ==
    /\ [](paused =>
            /\ \A pd \in ProofDatas, t \in PublicValues :
                  SubmitBatchCheck(pd, t) = "EnforcedPause"
            /\ \A pd \in ProofDatas, n \in 0..MaxAggLen : \A ts \in TransitionLists(n) :
                  SubmitAggregatedCheck(pd, ts) = "EnforcedPause")
    /\ [][(paused \/ paused' # paused)
            => UNCHANGED <<currentStateRoot, currentBatchIndex, batches,
                           processedProofs>>]_vars
    /\ [](~paused =>
            \A pd \in ProofDatas :
                (validProof /\ ProofHash(pd) \notin processedProofs) =>
                    /\ \A t \in PublicValues :
                          FirstBreak(<<t>>) = 0 => SubmitBatchCheck(pd, t) = "ok"
                    /\ \A n \in 1..MaxAggLen : \A ts \in TransitionLists(n) :
                          FirstBreak(ts) = 0 => SubmitAggregatedCheck(pd, ts) = "ok")

\* a batch was accepted, the ledger was paused, and a submission was rejected
\* for the pause although the verifier accepts proofs
C19_Witness ==
    /\ paused
    /\ lastRevert = "EnforcedPause"
    /\ Len(acceptedLog) = 1
    /\ validProof

\* C21: getLatestBatches(n), called when the ledger's currentBatchIndex is c,
\* returns min(n, c) batches, those with the indices c-1, c-2, ... in this
\* order, all of them finalized.
C21_LatestBatchesDescending ==
    \A count \in 0..MaxCount, c \in 0..currentBatchIndex :
        LET latest == getLatestBatches(count, c)
        IN  /\ Len(latest) = Min(count, c)
            /\ \A k \in 1..Len(latest) :
                  latest[k].batchIndex = c - k /\ latest[k].finalized

\* the ledger holds two batches, of which the manager has a local copy of the
\* second only: getLatestBatches(2) takes one from each
C21_Witness ==
    /\ currentBatchIndex = 2
    /\ 1 \in DOMAIN batchHistory /\ 0 \notin DOMAIN batchHistory
    /\ Len(getLatestBatches(2, 2)) = 2

\* C9: submitStateUpdate with a proof whose declared old root differs from the
\* current root fails with InvalidTransition before any ledger call is made and
\* leaves the root history, the batch history and the ledger unchanged.
C9_StaleRootRejectedBeforeLedger ==
    [][\A c \in Callers :
          (sub[c].kind = "single" /\ sub[c].pc = "reading" /\ sub'[c].pc # "reading"
             /\ sub[c].proofs[1].publicValues.oldStateRoot # currentStateRoot)
          => (/\ sub'[c].pc = "failed"
              /\ sub'[c].error = "InvalidTransition"
              /\ ~sub'[c].ledgerCalled
              /\ HistoryUnchanged
              /\ UNCHANGED ledgerVars)]_vars

\* a single submission was rejected for its old root while the history was not empty
C9_Witness ==
    \E c \in Callers :
        /\ sub[c].kind = "single" /\ sub[c].pc = "failed"
        /\ sub[c].error = "InvalidTransition"
        /\ sub[c].proofs[1].publicValues.oldStateRoot # sub[c].currentRoot
        /\ ~sub[c].ledgerCalled
        /\ DOMAIN stateHistory # {}

\* C26: the local history is a copy of the ledger: for every batch index k in
\* the StateRootManager's root history the ledger holds a finalized batch at
\* index k with the same root.
C26_LocalHistoryMatchesLedger ==
    \A k \in DOMAIN stateHistory :
        /\ k \in DOMAIN batches
        /\ batches[k].finalized
        /\ batches[k].stateRoot = stateHistory[k]

\* the step in which a submission of call c returns successfully
Succeeds(c) == sub[c].pc = "mined" /\ sub[c].error = "ok" /\ sub'[c].pc = "done"
IndicesOf(ps) == {ps[i].batchIndex : i \in 1..Len(ps)}
DistinctIndices(ps) ==
    \A i \in 1..Len(ps), j \in 1..Len(ps) : i # j => ps[i].batchIndex # ps[j].batchIndex

\* what a successful submission of ps leaves outside the indices of ps, and the
\* current root after it
OthersKeptAndRootIsLast(c) ==
    LET ps == sub[c].proofs
    IN  /\ DOMAIN stateHistory' = DOMAIN stateHistory \cup IndicesOf(ps)
        /\ \A k \in DOMAIN stateHistory \ IndicesOf(ps) : stateHistory'[k] = stateHistory[k]
        /\ currentStateRoot' = ps[Len(ps)].publicValues.newStateRoot

PendingDigests ==
    {generateTransactionHash(pendingTransactions[i].tx) :
        i \in 1..Len(pendingTransactions)}

ValidInputs == {tx \in TxInputs : validateTransaction(tx) = "ok"}

\* C11: starting from an empty pool, addTransaction calls with valid
\* transactions leave as many pending transactions as the calls had distinct
\* transactions: a valid transaction that is not pending is queued (from the
\* empty pool, every valid one), and one that is pending is left out without
\* an error.
C11_DistinctValidTransactionsAreCounted ==
    \A tx \in ValidInputs :
        /\ pendingTransactions = <<>> => AddTransactionOutcome(tx) = "queued"
        /\ generateTransactionHash(tx) \in PendingDigests
              => AddTransactionOutcome(tx) = "duplicate"

\* C23: the digest set holds exactly the digests of the pending transactions,
\* so a transaction that was drained into a batch is accepted when it is
\* submitted again.
C23_DigestSetIsPendingSet ==
    /\ transactionHashes = PendingDigests
    /\ \A tx \in ValidInputs :
          generateTransactionHash(tx) \notin PendingDigests
             => AddTransactionOutcome(tx) = "queued"

\* the structural rules of a transaction
ViolatesRule(tx) ==
    \/ tx.from \notin Addresses \/ tx.to \notin Addresses
    \/ tx.gasLimit < MinGasLimit \/ tx.gasLimit > MaxGasLimit
    \/ tx.nonce < 0 \/ tx.gasPrice < 0 \/ tx.value < 0
    \/ (tx.data # "" /\ tx.data \notin HexPayloads)

ValidationMessages ==
    {"Invalid from address", "Invalid to address",
     "Gas limit exceeds maximum allowed", "Gas limit below minimum required",
     "Nonce must be non-negative", "Gas price must be non-negative",
     "Value must be non-negative", "Data must be a hex string"}

\* C12: addTransaction with a transaction that violates a structural rule
\* fails with a validation error, which leaves the queue, the digest set and
\* the batch index as they are; so every queued transaction, and every digest
\* held, is of a transaction that satisfies all rules.
C12_InvalidTransactionsAreRejected ==
    /\ \A tx \in TxInputs :
          ViolatesRule(tx) => AddTransactionOutcome(tx) \in ValidationMessages
    /\ \A i \in 1..Len(pendingTransactions) :
          ~ViolatesRule(pendingTransactions[i].tx)
    /\ \A tx \in TxInputs :
          generateTransactionHash(tx) \in transactionHashes => ~ViolatesRule(tx)

\* two transactions are queued while each rule has an offered transaction
\* that breaks it and is refused
C12_Witness ==
    /\ Len(pendingTransactions) = 2
    /\ \A msg \in ValidationMessages :
          \E tx \in TxInvalid : AddTransactionOutcome(tx) = msg

\* addTransaction(tx) on the pool `pool`, a ValidationError being ignored
AddTransactionTo(pool, tx) ==
    IF validateTransaction(tx) # "ok" THEN pool
    ELSE IF generateTransactionHash(tx) \in pool.transactionHashes THEN pool
    ELSE [pendingTransactions |->
              Append(pool.pendingTransactions, [uid |-> pool.accepted + 1, tx |-> tx]),
          transactionHashes |-> pool.transactionHashes \cup {generateTransactionHash(tx)},
          accepted |-> pool.accepted + 1]

\* addTransaction on the elements of txs from the i-th on, in order
RECURSIVE AddEach(_, _, _)
AddEach(pool, txs, i) ==
    IF i > Len(txs) THEN pool
    ELSE AddEach(AddTransactionTo(pool, txs[i]), txs, i + 1)

CurrentPool ==
    [pendingTransactions |-> pendingTransactions,
     transactionHashes |-> transactionHashes,
     accepted |-> accepted]

\* C32: addTransactions(list) leaves the queue and the digest set as calling
\* addTransaction on each element in order and ignoring every validation error
\* would: invalid elements are skipped, duplicates of held digests and of
\* earlier elements are dropped, and the call does not fail.
C32_AddTransactionsIsAddEach ==
    \A txs \in BulkLists :
        PoolAfterAddTransactions(txs) = AddEach(CurrentPool, txs, 1)

\* a batch was drained, and addTransactions is offered a list with an invalid
\* element, a transaction twice and a drained transaction: one element of
\* the three it accepts differs from the queue's
C32_Witness ==
    /\ Len(creates) = 1 /\ Len(pendingTransactions) = 1
    /\ \E txs \in BulkLists :
          /\ Len(txs) = 3
          /\ \E i \in 1..3 : validateTransaction(txs[i]) # "ok"
          /\ \E i \in 1..3 : generateTransactionHash(txs[i]) \in transactionHashes
          /\ Len(PoolAfterAddTransactions(txs).pendingTransactions) = 2

(***************************************************************************)
(* Properties of the sequencer.                                            *)
(***************************************************************************)
\* a step in which the cycle of a tick ends with an error: its Promise.all
\* rejected with the Prover's error, postAggregatedBatchesToL1 threw, or the
\* submission failed
CycleFails ==
    /\ cyc.by = "timer"
    /\ cyc'.pc = "idle"
    /\ \/ cyc.pc = "creating" /\ \E i \in cyc.round : creates[i].st = "threw"
       \/ cyc.pc = "posting"
       \/ cyc.pc = "submitting" /\ sub["cycle"].pc = "failed"

\* C13: a cycle that fails with a Prover or settlement error does not stop the
\* sequencer: the step leaves isRunning and the timer as they are, counts no
\* batch and releases BatchProcessor.processing; with no cycle in flight the
\* flag is not set, so a later tick that finds pending transactions starts a
\* new cycle.
C13_FailedCycleReleasesGuard ==
    /\ [][CycleFails => /\ ~processing'
                        /\ UNCHANGED <<isRunning, intervalId, timers, totalBatches,
                                       lastBatchTimestamp>>]_vars
    /\ [](cyc.pc = "idle" /\ pendingTransactions # <<>>
            => ProcessBatchOutcome = "cycle")

\* a cycle's createBatch has failed, and a later tick of the running sequencer
\* has started the next cycle
C13_Witness ==
    /\ isRunning /\ timers > 0
    /\ cyc.pc = "creating" /\ cyc.by = "timer"
    /\ \E i \in 1..Len(creates) :
          /\ creates[i].owner = "cycle" /\ creates[i].st = "threw"
          /\ \A j \in cyc.round : i < j

\* stop() takes effect: the sequencer was running and is not any more
StopStep == isRunning /\ ~isRunning'

\* the cycle of a tick returns from its last submission after stop()
StoppedCycleCompletes ==
    /\ ~isRunning /\ cyc.by = "timer"
    /\ cyc.pc = "submitting" /\ sub["cycle"].pc = "done"
    /\ cyc'.pc = "idle"

IsPrefix(q, r) == Len(q) <= Len(r) /\ SubSeq(r, 1, Len(q)) = q

EmptyPool == "No pending transactions to batch"

\* C16: while the pool is empty, createBatch and forceBatch fail with
\* 'No pending transactions to batch', and no step hands a batch to the Prover
\* or begins a forced cycle, which alone could reach the ledger, the batch
\* index, the counters or the root history on behalf of such a call.
C16_EmptyPoolFailsWithoutEffect ==
    /\ [](pendingTransactions = <<>>
            => CreateBatchOutcome = EmptyPool /\ ForceBatchOutcome = EmptyPool)
    /\ [][pendingTransactions = <<>>
            => /\ Len(creates') = Len(creates)
               /\ \A f \in ForceCallers :
                     force[f].pc = "idle" => force'[f].pc = "idle"]_vars

\* batches have been formed and counted, nothing is in flight, and the pool is
\* empty: createBatch and forceBatch would fail
C16_Witness ==
    /\ pendingTransactions = <<>>
    /\ batchIndex > 0 /\ totalBatches > 0
    /\ cyc.pc = "idle" /\ \A f \in ForceCallers : force[f].pc = "idle"
    /\ \A i \in 1..Len(creates) : creates[i].st # "proving"
    /\ CreateBatchOutcome = EmptyPool /\ ForceBatchOutcome = EmptyPool

\* C20: the sequencer is Stopped or Running: isRunning holds exactly when
\* one timer is scheduled, which is the one intervalId names, and there is
\* never a second timer; only a start() in Stopped, which schedules the timer,
\* and a stop() in Running, which cancels it, change any of this.
C20_RunningIffOneTimer ==
    /\ [](timers \in {0, 1})
    /\ [](isRunning <=> timers = 1)
    /\ [](isRunning <=> intervalId = "timer")
    /\ [][(timers' # timers \/ intervalId' # intervalId \/ isRunning' # isRunning)
            => \/ ~isRunning /\ isRunning' /\ timers' = timers + 1
               \/ isRunning /\ ~isRunning' /\ timers' = timers - 1]_vars

\* the sequencer was started and stopped: a cycle of its timer is in flight
\* while no timer is scheduled
C20_Witness ==
    /\ ~isRunning /\ timers = 0 /\ intervalId = "null"
    /\ cyc.by = "timer" /\ cyc.pc = "creating"

(***************************************************************************)
(* Properties of the ProofGenerator.                                       *)
(***************************************************************************)
\* C4, as stated: a generateProof call that starts while a Prover call for its
\* batch index is pending makes no Prover call of its own, and the proof it
\* receives is the proof of that pending Prover call.
C4_Original ==
    \A c \in PgCallers :
        gen[c].overlaps # 0 =>
            /\ ~gen[c].owner
            /\ gen[c].pc = "done" => gen[c].result.proofId = gen[c].overlaps

\* C4, amended: a generateProof call that starts while a Prover call for its
\* batch index is pending, and whose own cache key is not in the proof cache,
\* makes no Prover call of its own and waits for the pending one; it and the call
\* that made the Prover call receive the proof of that one Prover call.
C4_OverlappingCallsShareOneProverCall ==
    /\ \A c \in PgCallers :
          (gen[c].overlaps # 0 /\ ~gen[c].cacheHit) =>
              /\ ~gen[c].owner
              /\ gen[c].awaiting = gen[c].overlaps
              /\ gen[c].pc = "done" => gen[c].result.proofId = gen[c].overlaps
    /\ \A c \in PgCallers :
          (gen[c].owner /\ gen[c].pc = "done") => gen[c].result.proofId = gen[c].awaiting

\* two overlapping calls for one batch index have both returned, with one proof
C4_Witness ==
    \E c1, c2 \in PgCallers :
        /\ c1 # c2
        /\ gen[c1].pc = "done" /\ gen[c1].owner
        /\ gen[c2].pc = "done" /\ ~gen[c2].cacheHit
        /\ gen[c2].overlaps = gen[c1].awaiting
        /\ gen[c2].batchIndex = gen[c1].batchIndex
        /\ gen[c2].result = gen[c1].result
        /\ Len(proverCalls) = 1

\* C27: every proof a generateProof(transactions, batchIndex) call returns was
\* generated by a Prover call on exactly that transaction list and that batch
\* index, whether it comes from the Prover, the pending map or the cache.
C27_ProofIsForRequestedBatch ==
    \A c \in PgCallers :
        gen[c].pc = "done" =>
            /\ proverCalls[gen[c].result.proofId].transactions = gen[c].transactions
            /\ proverCalls[gen[c].result.proofId].batchIndex = gen[c].batchIndex

\* C31: the proof cache is bounded: whatever the generateProof calls, older
\* entries are evicted, so that getCacheSize() stays below the number of proofs
\* the Prover has been allowed to produce.
C31_CacheSizeBounded == getCacheSize < MaxProverCalls

\* call c of generateProof is given the Prover's failure in this step
ReceivesFailure(c) == gen[c].pc = "waiting" /\ gen'[c].pc = "failed"

\* C15: when the Prover fails, every generateProof call that waits for that
\* Prover call receives the failure and none a proof; the call that invoked
\* the Prover invokes it no second time, caches nothing and removes the pending
\* entry of the index, so that the same request made again afterwards goes to
\* the Prover again; the cache holds proofs of successful Prover calls only.
C15_ProverFailureIsPassedOn ==
    /\ [][\A c \in PgCallers :
            /\ (gen[c].pc = "waiting" /\ gen'[c].pc # "waiting"
                    /\ proverCalls[gen[c].awaiting].status = "rejected")
                  => ReceivesFailure(c) /\ gen'[c].result = "ProverError"
            /\ ReceivesFailure(c)
                  => /\ proverCalls[gen[c].awaiting].status = "rejected"
                     /\ UNCHANGED <<proverCalls, proofCache>>
            /\ (ReceivesFailure(c) /\ gen[c].owner)
                  => /\ gen[c].batchIndex \notin DOMAIN pendingProofs'
                     /\ generateCacheKey(gen[c].transactions, gen[c].batchIndex)
                            \in DOMAIN proofCache
                        \/ GenerateProofOutcome(gen[c].transactions,
                                                gen[c].batchIndex)' = "prover"]_vars
    /\ [](\A key \in DOMAIN proofCache :
            proverCalls[proofCache[key].proofId].status = "resolved")

\* the Prover call of a request has failed, a call that waited for it holds the
\* failure, and the same request, made again, is at the Prover a second time
C15_Witness ==
    \E c1, c2 \in PgCallers :
        /\ gen[c1].pc = "failed" /\ ~gen[c1].owner /\ gen[c1].awaiting = 1
        /\ proverCalls[1].status = "rejected"
        /\ gen[c2].pc = "waiting" /\ gen[c2].owner /\ gen[c2].awaiting = 2
        /\ proverCalls[2].batchIndex = proverCalls[1].batchIndex
        /\ proverCalls[2].transactions = proverCalls[1].transactions
        /\ pendingProofs[proverCalls[2].batchIndex] = 2

\* call c of generateProof starts in this step
Starts(c) == gen[c].pc = "idle" /\ gen'[c].pc # "idle"

\* Prover call k was made for this request, has delivered its proof, and the
\* generateProof call that made it has returned
CompletedFor(k, transactions, index) ==
    /\ proverCalls[k].status = "resolved"
    /\ proverCalls[k].transactions = transactions
    /\ proverCalls[k].batchIndex = index
    /\ ~(index \in DOMAIN pendingProofs /\ pendingProofs[index] = k)

C1_ProverIndicesConsecutive ==
    \A i \in 1..Len(creates) : creates[i].batchIndex = i - 1

\* C24: over the sequencer's cycles the Prover is invoked at most once for each
\* batch index: no two createBatch calls hand the same index to the Prover,
\* also when they run in parallel in one cycle or when an earlier call failed.
C24_ProverInvokedOncePerIndex ==
    \A i, j \in 1..Len(creates) :
        i # j => creates[i].batchIndex # creates[j].batchIndex

\* the sequencer cycles in flight
CyclesInFlight ==
    {c \in {"cycle"} : cyc.pc # "idle"} \cup {f \in ForceCallers : force[f].pc # "idle"}

\* C2: at most one sequencer cycle (a processPendingTransactions or
\* createAndPostBatch run) is in flight at any time.
C2_OneCycleInFlight == Cardinality(CyclesInFlight) <= 1

\* no sequencer cycle is running, and no createBatch call awaits the Prover
NoCycleInFlight ==
    /\ CyclesInFlight = {}
    /\ \A i \in 1..Len(creates) : creates[i].st # "proving"

\* C25: whenever no cycle is in flight, the next batch index of the
\* BatchProcessor equals the ledger's currentBatchIndex, also after a cycle
\* whose submission was rejected.
C25_LocalIndexFollowsLedger ==
    NoCycleInFlight => batchIndex = currentBatchIndex

\* the batches that were posted to settlement and accepted
PostedBatches == {i \in 1..Len(creates) : creates[i].st = "posted"}

\* C28: totalBatches is the number of batches the sequencer has successfully
\* submitted: a successful cycle adds the number of batches it formed and
\* posted, also when it posts more than one aggregate, and a failed cycle,
\* stop() and start() add nothing.
C28_TotalBatchesCountsPosted ==
    NoCycleInFlight => totalBatches = Cardinality(PostedBatches)

\* the transactions createBatch call i has drained, as the acceptances they are
Drained(i) == {creates[i].transactions[j].uid : j \in 1..Len(creates[i].transactions)}
Pending == {pendingTransactions[j].uid : j \in 1..Len(pendingTransactions)}

\* C5: the transaction lists drained by any two createBatch calls are disjoint,
\* and no drained transaction is in the pending queue, which holds each of its
\* transactions once (so getPendingTransactionCount counts no drained one).
C5_DrainedListsDisjoint ==
    /\ \A i, j \in 1..Len(creates) : i # j => Drained(i) \cap Drained(j) = {}
    /\ \A i \in 1..Len(creates) :
          /\ Drained(i) \cap Pending = {}
          /\ Cardinality(Drained(i)) = Len(creates[i].transactions)
          /\ Drained(i) # {}
    /\ Cardinality(Pending) = Len(pendingTransactions)

\* two createBatch calls await the Prover at the same time, each with its batch
C5_Witness ==
    /\ Len(creates) >= 2
    /\ creates[1].st = "proving" /\ creates[2].st = "proving"
    /\ Drained(1) # {} /\ Drained(2) # {}

\* the calls of the ledger made through the StateRootManager and not yet returned
SubmissionsInFlight == {c \in Callers : sub[c].pc \in {"submitting", "mined"}}

\* C7: no two settlement submissions made through the StateRootManager are in
\* flight at the same time.
C7_OneSubmissionInFlight == Cardinality(SubmissionsInFlight) <= 1

\* every transaction some createBatch call has drained
AllDrained == UNION {Drained(i) : i \in 1..Len(creates)}

\* the Prover fails a createBatch call in this step
ProverFails == \E i \in 1..Len(creates) : creates[i].st = "proving" /\ creates'[i].st = "threw"

\* the settlement submission of a formed batch is rejected in this step: by the
\* StateRootManager before the ledger is called, or by the ledger
SubmissionRejected ==
    \E c \in PipelineCallers :
        \/ sub[c].pc = "reading" /\ sub'[c].pc = "failed"
        \/ sub[c].pc = "submitting" /\ sub'[c].pc = "mined" /\ sub'[c].error # "ok"

\* the proofs handed to settlement by the calls in flight
ProofsInSubmission ==
    UNION {{sub[c].proofs[j].proofId : j \in 1..Len(sub[c].proofs)} : c \in PipelineCallers}

\* C30: when the Prover fails or the settlement submission is rejected after a
\* batch was formed, the drained transactions are not put back: the step leaves
\* the queue as it is and commits nothing on the ledger, a batch whose Prover
\* call failed is never submitted, and the queue always holds exactly the
\* accepted transactions that no createBatch call has drained.
C30_FailedBatchIsNotRequeued ==
    /\ [][(ProverFails \/ SubmissionRejected)
            => /\ pendingTransactions' = pendingTransactions
               /\ UNCHANGED <<batches, currentBatchIndex, currentStateRoot, acceptedLog>>]_vars
    /\ [](\A i \in 1..Len(creates) :
              creates[i].st = "threw" => i \notin ProofsInSubmission)
    /\ [](Pending \cap AllDrained = {} /\ Pending \cup AllDrained = 1..accepted)

\* the Prover failed for the batch of the first transaction and the ledger has
\* rejected the forced batch of the second: nothing is pending and nothing
\* committed
C30_Witness ==
    /\ Len(creates) = 2
    /\ creates[1].st = "threw" /\ creates[2].st = "returned"
    /\ \E f \in ForceCallers :
          /\ force[f].pc = "submitting" /\ force[f].create = 2
          /\ sub[f].pc = "failed" /\ sub[f].error = "InvalidProof"
    /\ acceptedLog = <<>> /\ batches = <<>>
    /\ pendingTransactions = <<>> /\ accepted = 2

\* gasPrice * gasLimit of a queued transaction
GasProduct(e) == e.tx.gasPrice * e.tx.gasLimit

\* this step is the synchronous part of one createBatch call
FormsOneBatch == Len(creates') = Len(creates) + 1

\* C33: the list createBatch passes to the Prover is a permutation of the
\* drained transactions in the order of non-increasing gasPrice * gasLimit, and
\* transactions of equal gasPrice * gasLimit keep their arrival order.
C33_BatchSortedStably ==
    /\ [](\A i \in 1..Len(creates) :
              \A a, b \in 1..Len(creates[i].transactions) :
                  a < b =>
                      /\ GasProduct(creates[i].transactions[a])
                            >= GasProduct(creates[i].transactions[b])
                      /\ GasProduct(creates[i].transactions[a])
                            = GasProduct(creates[i].transactions[b])
                         => creates[i].transactions[a].uid < creates[i].transactions[b].uid)
    /\ [][FormsOneBatch
            => LET ts == creates'[Len(creates')].transactions
                   k == Len(pendingTransactions) - Len(pendingTransactions')
               IN  /\ Len(ts) = k
                   /\ {ts[j] : j \in 1..k} = {pendingTransactions[j] : j \in 1..k}
                   /\ Cardinality({ts[j].uid : j \in 1..k}) = k]_vars

\* a batch of two was handed to the Prover with the later transaction, of the
\* greater gasPrice * gasLimit, first
C33_Witness ==
    \E i \in 1..Len(creates) :
        /\ Len(creates[i].transactions) = 2
        /\ creates[i].transactions[1].uid > creates[i].transactions[2].uid
        /\ GasProduct(creates[i].transactions[1]) > GasProduct(creates[i].transactions[2])

\* the congestion multiplier, in tenths: 1 / (currentGasPrice / 10) clamped to
\* [0.5, 1.5]
CongestionMultiplierTenths == Max(5, Min(15, 100 \div CurrentGasPrice))

\* the batch size of the formula: floor(min(maxTransactions, p) * m), at least 1
FormulaBatchSize(maxTransactions, p) ==
    Max(1, (Min(maxTransactions, p) * CongestionMultiplierTenths) \div 10)

\* C34: for a pool of p > 0 transactions createBatch drains the k oldest, where
\* k = floor(min(maxTransactions, p) * m), raised to at least 1, so that
\* 1 <= k <= min(maxTransactions, p); the other p - k stay pending in their
\* arrival order.
C34_BatchSizeFormula ==
    /\ [](CongestionMultiplierTenths \in 5..15)
    /\ [](\A maxTransactions \in 1..MaxConfigured, p \in 1..MaxAccepted :
              LET k == calculateOptimalBatchSizeWith(maxTransactions, p)
              IN  /\ k = FormulaBatchSize(maxTransactions, p)
                  /\ 1 <= k /\ k <= Min(maxTransactions, p))
    /\ [][FormsOneBatch
            => LET p == Len(pendingTransactions)
                   ts == creates'[Len(creates')].transactions
                   k == Len(ts)
               IN  /\ \E maxTransactions \in 1..MaxConfigured :
                         k = FormulaBatchSize(maxTransactions, p)
                   /\ {ts[j].uid : j \in 1..k} = {pendingTransactions[j].uid : j \in 1..k}
                   /\ pendingTransactions' = SubSeq(pendingTransactions, k + 1, p)]_vars

\* a batch of one was cut from a queue of two under maxTransactions = 1: the
\* later transaction is still pending
C34_Witness ==
    /\ Len(pendingTransactions) = 1 /\ pendingTransactions[1].uid = 2
    /\ Len(creates) = 1 /\ Len(creates[1].transactions) = 1
    /\ creates[1].transactions[1].uid = 1
    /\ calculateOptimalBatchSizeWith(2, 2) = 2

\* the proofs a running cycle holds: those it is posting and those it keeps
ProofsHeld ==
    {cyc.toPost[j].proofId : j \in 1..Len(cyc.toPost)}
        \cup {cyc.allProofs[j].proofId : j \in 1..Len(cyc.allProofs)}

\* processPendingTransactions has finished with everything batched and posted
CycleComplete ==
    /\ cyc.pc = "idle" /\ ~processing
    /\ pendingTransactions = <<>>
    /\ AllDrained = 1..accepted
    /\ \A i, j \in 1..Len(creates) : i # j => Drained(i) \cap Drained(j) = {}
    /\ \A i \in 1..Len(creates) : creates[i].st = "posted"

C36_PendingIsEventuallyDrained ==
    \A u \in 1..MaxAccepted :
        (isRunning /\ u \in Pending) ~> (u \in AllDrained /\ u \notin Pending)

\* the running sequencer has drained both accepted transactions, each into a
\* batch of its own, and the Prover has answered for the first
C36_Witness ==
    /\ isRunning /\ timers > 0
    /\ accepted = 2 /\ Pending = {}
    /\ Len(creates) = 2
    /\ creates[1].st # "proving"
    /\ Drained(2) = {2}

(***************************************************************************)
(* C37: StateRootManager.updateState conserves value: for every list of    *)
(* transitions (failed ones, transfers above the sender's balance and      *)
(* transfers from an address to itself included) the sum of the stored     *)
(* balances after the call equals the sum before it, and no balance        *)
(* becomes negative.                                                       *)
(***************************************************************************)
RECURSIVE SumOver(_, _)
SumOver(storage, keys) ==
    IF keys = {} THEN 0
    ELSE LET k == CHOOSE x \in keys : TRUE
         IN  storage[k] + SumOver(storage, keys \ {k})
TotalBalance(storage) == SumOver(storage, DOMAIN storage)

C37_UpdateStateConservesValue ==
    \A transitions \in StateTransitionLists(MaxTransitions) :
        LET after == updateStateLoop(stateStorage, transitions, 1)
        IN  /\ TotalBalance(after) = TotalBalance(stateStorage)
            /\ \A a \in DOMAIN after : after[a] >= 0

(***************************************************************************)
(* C38: admin grants and revocations made through ZKRollup take effect:    *)
(* after addAuthorizedAddress(a), isAuthorized(a) is true and a appears in *)
(* getAuthorizedAddresses(); after removeAuthorizedAddress(a),             *)
(* isAuthorized(a) is false and SecurityManager.checkAccess(a, ADMIN) is   *)
(* denied.                                                                 *)
(***************************************************************************)
C38_GrantsAndRevocationsTakeEffect ==
    /\ (lastCall.op = "addAuthorizedAddress" /\ lastCall.outcome = "granted")
          => /\ isAdmin(lastCall.address)
             /\ toLowerCase(lastCall.address) \in getAdminAddresses
    /\ (lastCall.op = "removeAuthorizedAddress" /\ lastCall.outcome = "granted")
          => /\ ~isAdmin(lastCall.address)
             /\ \A expired \in BOOLEAN :
                   AccessOutcome(lastCall.address, "ADMIN", expired) # "granted"

====
